---- MODULE Spec2Model ----
(***************************************************************************)
(* Koka: schedule generation (section filter + backtracking combination   *)
(* generator) modelled from src-tauri/src/tauri_backend.                   *)
(*                                                                         *)
(* Rust strings that the code takes apart (the time strings of the         *)
(* scraper) are sequences of one-character strings; strings that are only  *)
(* compared are TLA+ strings.  Rust indices stay 0-based; a Rust vector v  *)
(* is a TLA+ sequence and v[i] is written v[i + 1].  A Rust tuple          *)
(* ((start, end), active) is <<<<start, end>>, active>>.                   *)
(***************************************************************************)
EXTENDS Integers, Sequences, FiniteSets, TLC

VARIABLES
    pc,                 \* position in setup_scrape / generate_combinations
    parameters,         \* ScrapeClassesParameters: [classes, events]
    combined_classes,   \* setup_scrape: the groups handed to filter_classes
    classes,            \* generate_combinations: its argument (filtered groups)
    class_indices,      \* generate_combinations: group -> flattened indices
    flattened_classes,  \* generate_combinations: all sections, flattened
    current_schedule,   \* backtrack: the partial assignment (indices)
    results,            \* backtrack: accumulated index lists
    stack,              \* backtrack: call stack, one frame per active call
    final_results,      \* generate_combinations: the returned combinations
    classes_table,      \* database: rows of the table classes, in rowid order
    schedules_table,    \* database: rows of the table schedules
    portal,             \* the class search site: course name -> listed sections
    cached_results,     \* setup_scrape: request index -> cached sections
    classes_to_scrape_params, \* setup_scrape: the requests that missed the cache
    scrape_indices,     \* setup_scrape: their indices in the request
    driver_started,     \* setup_scrape: start_chromedriver was called
    ret,                \* setup_scrape: its result
    raw_events,         \* process_events: its argument
    events_by_day,      \* process_events: day key -> timed events
    no_time_events_by_day, \* process_events: day key -> events without a time
    days_to_do,         \* process_events: the day lists not yet laid out
    ep_pc,              \* position in process_events
    convert_time_call,  \* convert_time: its arguments [time_str, days]
    convert_time_ret,   \* convert_time: the array it returned
    save_batch_call,    \* save_batch: its arguments and the table it found
    startup_complete,   \* AppState.startup_complete
    invocations,        \* startup_app: position and result of each invocation
    setup_program_runs, \* how many times setup_program was started
    failed_attempts,    \* FAILED_ATTEMPTS: the record of KEYRING_SERVICE, if any
    failed_in_a_row,    \* failed verifications since the last successful one
    verify_ret          \* verify_master_password: its last result

setup_vars == <<classes_table, schedules_table, portal, cached_results,
                classes_to_scrape_params, scrape_indices, driver_started, ret>>

event_vars == <<raw_events, events_by_day, no_time_events_by_day, days_to_do, ep_pc>>

convert_vars == <<convert_time_call, convert_time_ret>>

startup_vars == <<startup_complete, invocations, setup_program_runs>>

credential_vars == <<failed_attempts, failed_in_a_row, verify_ret>>

unit_vars == <<convert_vars, save_batch_call, startup_vars, credential_vars>>

vars == <<pc, parameters, combined_classes, classes, class_indices,
          flattened_classes, current_schedule, results, stack, final_results,
          setup_vars, event_vars, unit_vars>>

----------------------------------------------------------------------------
(* Bounds of the explored inputs *)

MaxGroups == 3
MaxGroupSize == 2
MaxCourses == 2
MaxEvents == 2

----------------------------------------------------------------------------
(* str helpers used by convert_time and parse_time_component *)

Min(a, b) == IF a <= b THEN a ELSE b

is_whitespace(c) == c \in {" ", "\t", "\n"}

RECURSIVE trim_start(_)
trim_start(s) ==
    IF s = <<>> THEN s
    ELSE IF is_whitespace(Head(s)) THEN trim_start(Tail(s)) ELSE s

RECURSIVE trim_end(_)
trim_end(s) ==
    IF s = <<>> THEN s
    ELSE IF is_whitespace(s[Len(s)]) THEN trim_end(SubSeq(s, 1, Len(s) - 1)) ELSE s

trim(s) == trim_end(trim_start(s))

starts_with(s, pat) == Len(s) >= Len(pat) /\ SubSeq(s, 1, Len(pat)) = pat

\* str::replace(pat, ""): every non-overlapping occurrence of pat, left to right
RECURSIVE replace(_, _)
replace(s, pat) ==
    IF s = <<>> THEN s
    ELSE IF starts_with(s, pat) THEN replace(SubSeq(s, Len(pat) + 1, Len(s)), pat)
    ELSE <<Head(s)>> \o replace(Tail(s), pat)

\* str::find(char): 0-based offset of the first occurrence, -1 for None
find(s, c) ==
    IF \E i \in 1..Len(s) : s[i] = c
    THEN (CHOOSE i \in 1..Len(s) : s[i] = c /\ \A j \in 1..(i - 1) : s[j] # c) - 1
    ELSE -1

\* str::split(char): the pieces between separators, empty pieces included
RECURSIVE split(_, _)
split(s, c) ==
    LET p == find(s, c) IN
    IF p = -1 THEN <<s>>
    ELSE <<SubSeq(s, 1, p)>> \o split(SubSeq(s, p + 2, Len(s)), c)

\* str::split_whitespace: the maximal runs of non-whitespace characters
RECURSIVE split_whitespace(_)
split_whitespace(s) ==
    LET t == trim_start(s) IN
    IF t = <<>> THEN <<>>
    ELSE LET n == IF \E i \in 1..Len(t) : is_whitespace(t[i])
                  THEN (CHOOSE i \in 1..Len(t) :
                           is_whitespace(t[i]) /\ \A j \in 1..(i - 1) : ~is_whitespace(t[j])) - 1
                  ELSE Len(t)
         IN <<SubSeq(t, 1, n)>> \o split_whitespace(SubSeq(t, n + 1, Len(t)))

Upper == <<"A", "B", "C", "D", "E", "F", "G", "H", "I", "J", "K", "L", "M",
           "N", "O", "P", "Q", "R", "S", "T", "U", "V", "W", "X", "Y", "Z">>
Lower == <<"a", "b", "c", "d", "e", "f", "g", "h", "i", "j", "k", "l", "m",
           "n", "o", "p", "q", "r", "s", "t", "u", "v", "w", "x", "y", "z">>

to_ascii_uppercase(c) ==
    IF \E k \in 1..26 : Lower[k] = c
    THEN Upper[CHOOSE k \in 1..26 : Lower[k] = c]
    ELSE c

to_ascii_lowercase(c) ==
    IF \E k \in 1..26 : Upper[k] = c
    THEN Lower[CHOOSE k \in 1..26 : Upper[k] = c]
    ELSE c

\* String::to_uppercase on the ASCII characters of the explored inputs
to_uppercase(s) == [i \in 1..Len(s) |-> to_ascii_uppercase(s[i])]

Digits == <<"0", "1", "2", "3", "4", "5", "6", "7", "8", "9">>

is_digit(c) == \E d \in 1..10 : Digits[d] = c

digit_value(c) == (CHOOSE d \in 1..10 : Digits[d] = c) - 1

RECURSIVE digits_value(_)
digits_value(s) ==
    IF s = <<>> THEN 0
    ELSE digits_value(SubSeq(s, 1, Len(s) - 1)) * 10 + digit_value(s[Len(s)])

\* str::parse::<i32>(): an optional sign, then one or more decimal digits
\* (values of the explored inputs stay far inside the i32 range)
parse_ok(s) ==
    LET body == IF s # <<>> /\ Head(s) \in {"+", "-"} THEN Tail(s) ELSE s IN
    body # <<>> /\ \A i \in 1..Len(body) : is_digit(body[i])

parse(s) ==
    IF Head(s) = "-" THEN 0 - digits_value(Tail(s))
    ELSE IF Head(s) = "+" THEN digits_value(Tail(s))
    ELSE digits_value(s)

----------------------------------------------------------------------------
(* scrape_classes.rs: time parsing *)

parse_time_component(time) ==
    LET parts == split_whitespace(time) IN
    IF Len(parts) # 2 THEN -1
    ELSE
    LET time_part == parts[1]
        period == to_uppercase(parts[2])
        time_components == split(time_part, ":")
    IN
    IF Len(time_components) # 2 THEN -1
    ELSE IF ~parse_ok(time_components[1]) THEN -1
    ELSE IF ~parse_ok(time_components[2]) THEN -1
    ELSE
    LET hours == parse(time_components[1])
        minutes == parse(time_components[2])
        adjusted_hours ==
            IF period = <<"P", "M">> /\ hours # 12 THEN hours + 12
            ELSE IF period = <<"A", "M">> /\ hours = 12 THEN 0
            ELSE hours
    IN adjusted_hours * 100 + minutes

SpanOpen ==
    <<"<", "s", "p", "a", "n", " ", "c", "l", "a", "s", "s", "=", "\"",
      "i", "n", "n", "e", "r", "_", "t", "b", "l", "_", "b", "r", "\"", ">">>

SpanClose == <<"<", "/", "s", "p", "a", "n", ">">>

cleaned_time(time_str) == trim(replace(replace(trim(time_str), SpanOpen), SpanClose))

\* the slot convert_time computes for one weekday that the loop visits
convert_time_slot(time_str, day_active) ==
    IF trim(time_str) = <<>> \/ ~day_active THEN <<<<-1, -1>>, FALSE>>
    ELSE
    LET cleaned == cleaned_time(time_str)
        hyphen_pos == find(cleaned, "-")
        start_time == trim(SubSeq(cleaned, 1, hyphen_pos))
        end_time == trim(SubSeq(cleaned, hyphen_pos + 2, Len(cleaned)))
    IN <<<<parse_time_component(start_time), parse_time_component(end_time)>>, TRUE>>

\* `.find('-').unwrap()` panics on a visited, active day of a range without hyphen
convert_time_panics(time_str, days) ==
    /\ trim(time_str) # <<>>
    /\ \E i \in 0..3 : days[i + 1]
    /\ find(cleaned_time(time_str), "-") = -1

\* `for i in 0..4` visits the indices 0, 1, 2, 3; index 4 keeps its initial value
convert_time(time_str, days) ==
    [i \in 1..5 |->
        IF (i - 1) \in 0..3 THEN convert_time_slot(time_str, days[i])
        ELSE <<<<-1, -1>>, FALSE>>]

----------------------------------------------------------------------------
(* scrape_classes.rs: blocked-event test and section filter *)

\* variant of validate_time_ok that forgets `if !event.days[day_index] { continue }`
validate_time_ok_any_day(events, days) ==
    \A day_index \in 0..4 :
        LET day == days[day_index + 1] IN
        \/ ~day[2]
        \/ \A e \in 1..Len(events) :
              LET event == events[e] IN
              ~(day[1][1] <= event.time[2] /\ day[1][2] >= event.time[1])

validate_time_ok(events, days) ==
    \A day_index \in 0..4 :
        LET day == days[day_index + 1] IN
        \/ ~day[2]
        \/ \A e \in 1..Len(events) :
              LET event == events[e] IN
              \/ ~event.days[day_index + 1]
              \/ ~(day[1][1] <= event.time[2] /\ day[1][2] >= event.time[1])

\* variant of the comparison that tells upper case from lower case
eq_case_sensitive(a, b) ==
    a = b

eq_ignore_ascii_case(a, b) ==
    /\ Len(a) = Len(b)
    /\ \A i \in 1..Len(a) : to_ascii_lowercase(a[i]) = to_ascii_lowercase(b[i])

\* variant of the closure that validates only the first time block
filter_keep_first_block(section, desired_class, events) ==
    /\ section.classes # <<>>
    /\ \/ desired_class.section = ""
       \/ \E b \in 1..Len(section.classes) :
             section.classes[b].section = desired_class.section
    /\ \/ desired_class.instructor = <<>>
       \/ \E b \in 1..Len(section.classes) :
             eq_ignore_ascii_case(section.classes[b].instructor, desired_class.instructor)
    /\ validate_time_ok(events, section.classes[1].days)

\* the closure of filter_classes: TRUE iff the section is kept
filter_keep(section, desired_class, events) ==
    /\ section.classes # <<>>
    /\ \/ desired_class.section = ""
       \/ \E b \in 1..Len(section.classes) :
             section.classes[b].section = desired_class.section
    /\ \/ desired_class.instructor = <<>>
       \/ \E b \in 1..Len(section.classes) :
             eq_ignore_ascii_case(section.classes[b].instructor, desired_class.instructor)
    /\ \A b \in 1..Len(section.classes) :
          validate_time_ok(events, section.classes[b].days)

\* variant of filter_classes that pushes a group only when a section is left
filter_classes_drop_empty(input_classes, params) ==
    IF input_classes = <<>> THEN <<>>
    ELSE SelectSeq(
           [i \in 1..Min(Len(input_classes), Len(params.classes)) |->
               SelectSeq(input_classes[i],
                         LAMBDA section : filter_keep(section, params.classes[i], params.events))],
           LAMBDA group : group # <<>>)

\* zip() stops at the shorter of input_classes and parameters.classes
filter_classes(input_classes, params) ==
    IF input_classes = <<>> THEN <<>>
    ELSE [i \in 1..Min(Len(input_classes), Len(params.classes)) |->
             SelectSeq(input_classes[i],
                       LAMBDA section : filter_keep(section, params.classes[i], params.events))]

----------------------------------------------------------------------------
(* class_combinations.rs: pure parts *)

\* variant of is_compatible that compares with the last scheduled class only
is_compatible_last_only(all_classes, new_class_idx, schedule_indices) ==
    LET new_class == all_classes[new_class_idx + 1] IN
    \A k \in {Len(schedule_indices)} \ {0} :
        LET existing_class == all_classes[schedule_indices[k] + 1] IN
        \A n \in 1..Len(new_class.classes), x \in 1..Len(existing_class.classes) :
            \A day_idx \in 0..4 :
                LET new_day == new_class.classes[n].days[day_idx + 1]
                    existing_day == existing_class.classes[x].days[day_idx + 1]
                IN
                \/ ~new_day[2] \/ ~existing_day[2]
                \/ ~(new_day[1][1] < existing_day[1][2] /\ new_day[1][2] > existing_day[1][1])

\* variant of is_compatible with the inclusive test `<=` / `>=`
is_compatible_inclusive(all_classes, new_class_idx, schedule_indices) ==
    LET new_class == all_classes[new_class_idx + 1] IN
    \A k \in 1..Len(schedule_indices) :
        LET existing_class == all_classes[schedule_indices[k] + 1] IN
        \A n \in 1..Len(new_class.classes), x \in 1..Len(existing_class.classes) :
            \A day_idx \in 0..4 :
                LET new_day == new_class.classes[n].days[day_idx + 1]
                    existing_day == existing_class.classes[x].days[day_idx + 1]
                IN
                \/ ~new_day[2] \/ ~existing_day[2]
                \/ ~(new_day[1][1] <= existing_day[1][2] /\ new_day[1][2] >= existing_day[1][1])

\* variant that reports an overlap only when the new class starts first
is_compatible_one_sided(all_classes, new_class_idx, schedule_indices) ==
    LET new_class == all_classes[new_class_idx + 1] IN
    \A k \in 1..Len(schedule_indices) :
        LET existing_class == all_classes[schedule_indices[k] + 1] IN
        \A n \in 1..Len(new_class.classes), x \in 1..Len(existing_class.classes) :
            \A day_idx \in 0..4 :
                LET new_day == new_class.classes[n].days[day_idx + 1]
                    existing_day == existing_class.classes[x].days[day_idx + 1]
                IN
                \/ ~new_day[2] \/ ~existing_day[2]
                \/ ~(new_day[1][1] < existing_day[1][2] /\ new_day[1][1] <= existing_day[1][1])

is_compatible(all_classes, new_class_idx, schedule_indices) ==
    LET new_class == all_classes[new_class_idx + 1] IN
    \A k \in 1..Len(schedule_indices) :
        LET existing_class == all_classes[schedule_indices[k] + 1] IN
        \A n \in 1..Len(new_class.classes), x \in 1..Len(existing_class.classes) :
            \A day_idx \in 0..4 :
                LET new_day == new_class.classes[n].days[day_idx + 1]
                    existing_day == existing_class.classes[x].days[day_idx + 1]
                IN
                \/ ~new_day[2] \/ ~existing_day[2]
                \/ ~(new_day[1][1] < existing_day[1][2] /\ new_day[1][2] > existing_day[1][1])

RECURSIVE flatten(_)
flatten(groups) ==
    IF groups = <<>> THEN <<>> ELSE Head(groups) \o flatten(Tail(groups))

\* generate_combinations, lines 26-37: flattened_classes
build_flattened_classes(groups) == flatten(groups)

\* variant of the index structure that pushes the position within the group
build_class_indices_local(groups) ==
    [g \in 1..Len(groups) |-> [k \in 1..Len(groups[g]) |-> k - 1]]

\* generate_combinations, lines 26-37: class_indices[g] holds the positions in
\* flattened_classes of the members of group g
build_class_indices(groups) ==
    [g \in 1..Len(groups) |->
        [k \in 1..Len(groups[g]) |-> Len(flatten(SubSeq(groups, 1, g - 1))) + (k - 1)]]

total_groups == Len(classes)

----------------------------------------------------------------------------
(* The explored inputs: what the portal (or the class cache) holds *)

Chars(n) ==
    CASE n = "9-10"  -> <<"9", ":", "0", "0", " ", "A", "M", " ", "-", " ", "1", "0", ":", "0", "0", " ", "A", "M">>
      [] n = "10-11" -> <<"1", "0", ":", "0", "0", " ", "A", "M", " ", "-", " ", "1", "1", ":", "0", "0", " ", "A", "M">>
      [] n = "lab"   -> <<"1", "0", ":", "3", "0", " ", "a", "m", " ", "-", " ", "1", "1", ":", "3", "0", " ", "a", "m">>
      [] n = "tba"   -> <<"T", "B", "A", " ", "-", " ", "1", "0", ":", "0", "0", " ", "A", "M">>
      [] n = "Smith" -> <<"S", "m", "i", "t", "h">>
      [] n = "SMITH" -> <<"S", "M", "I", "T", "H">>
      [] n = "Jones" -> <<"J", "o", "n", "e", "s">>
      [] n = "Lee"   -> <<"L", "e", "e">>
      [] n = "Staff" -> <<"S", "t", "a", "f", "f">>
      [] OTHER       -> <<>>

Mon == <<TRUE, FALSE, FALSE, FALSE, FALSE>>
Tue == <<FALSE, TRUE, FALSE, FALSE, FALSE>>
MonWed == <<TRUE, FALSE, TRUE, FALSE, FALSE>>
MonTue == <<TRUE, TRUE, FALSE, FALSE, FALSE>>
ThuFri == <<FALSE, FALSE, FALSE, TRUE, TRUE>>
NoDay == <<FALSE, FALSE, FALSE, FALSE, FALSE>>

\* scrape_search_results: the TimeBlock built from one row of the results table
scraped_time_block(section, days_bool, time_str, instructor) ==
    [section |-> section,
     location |-> IF \A i \in 1..5 : ~days_bool[i]
                  THEN "Distance Education - Online" ELSE "EB2",
     instructor |-> instructor,
     days |-> convert_time(time_str, days_bool)]

scraped_class(code, name, blocks) ==
    [code |-> code, name |-> name, description |-> "", classes |-> blocks]

\* Mon+Wed 9:00-10:00, the time wrapped in the portal's span tag
SecA1 == scraped_class("CSC", "116",
    <<scraped_time_block("001", MonWed, SpanOpen \o Chars("9-10") \o SpanClose, Chars("Smith"))>>)
\* lecture Tue 9:00-10:00 and lab Mon 10:30-11:30
SecA2 == scraped_class("CSC", "116",
    <<scraped_time_block("002", Tue, Chars("9-10"), Chars("Jones")),
      scraped_time_block("002", Mon, Chars("lab"), Chars("Jones"))>>)
\* Mon 10:00-11:00
SecB1 == scraped_class("MA", "141",
    <<scraped_time_block("001", Mon, Chars("10-11"), Chars("Lee"))>>)
\* Tue, start time not parseable
SecB2 == scraped_class("MA", "141",
    <<scraped_time_block("002", Tue, Chars("tba"), Chars("Smith"))>>)
\* online section: no meeting day
SecC1 == scraped_class("PY", "205",
    <<scraped_time_block("601", NoDay, <<>>, Chars("Staff"))>>)
\* a section whose table holds no time-block row
SecC2 == scraped_class("PY", "205", <<>>)

SectionPool == <<SecA1, SecB1, SecA2, SecB2>>

Catalog == <<<<SecA1, SecA2>>, <<SecB1, SecB2>>, <<SecC1, SecC2>>>>

CourseOf(c) == [code |-> Catalog[c][1].code, name |-> Catalog[c][1].name]

ConstraintPool ==
    { [section |-> "", instructor |-> <<>>],
      [section |-> "002", instructor |-> <<>>],
      [section |-> "", instructor |-> Chars("SMITH")] }

ClassParamPool ==
    { [id |-> "", code |-> CourseOf(c).code, name |-> CourseOf(c).name,
       section |-> k.section, instructor |-> k.instructor] :
         c \in 1..Len(Catalog), k \in ConstraintPool }

EventPool ==
    { [time |-> <<1000, 1100>>, days |-> Mon],
      [time |-> <<1100, 1200>>, days |-> MonTue],
      [time |-> <<900, 1000>>, days |-> ThuFri] }

\* the sequences over S of length at most n without a repeated element
DistinctSeqs(S, n) ==
    UNION { { q \in [1..k -> S] : \A i, j \in 1..k : i # j => q[i] # q[j] } : k \in 0..n }

AllSeqs(S, n) == UNION { [1..k -> S] : k \in 0..n }

\* ClassRepository::get_by_name / perform_scrape: the sections of a requested course
SectionsOf(class_param) ==
    LET c == CHOOSE c \in 1..Len(Catalog) :
                 CourseOf(c).code = class_param.code /\ CourseOf(c).name = class_param.name
    IN Catalog[c]

----------------------------------------------------------------------------
(* Initial states *)

\* setup_scrape is not running
NoResult == [status |-> "none", value |-> <<>>]

SetupIdle ==
    /\ classes_table = <<>>
    /\ schedules_table = {}
    /\ portal = <<>>
    /\ cached_results = <<>>
    /\ classes_to_scrape_params = <<>>
    /\ scrape_indices = <<>>
    /\ driver_started = FALSE
    /\ ret = NoResult

\* process_events is not running
EventsIdle ==
    /\ raw_events = <<>>
    /\ events_by_day = <<>>
    /\ no_time_events_by_day = <<>>
    /\ days_to_do = {}
    /\ ep_pc = "idle"

\* convert_time, save_batch, startup_app and verify_master_password are not running
UnitsIdle ==
    /\ convert_time_call = <<>>
    /\ convert_time_ret = <<>>
    /\ save_batch_call = <<>>
    /\ startup_complete = FALSE
    /\ invocations = <<>>
    /\ setup_program_runs = 0
    /\ failed_attempts = <<>>
    /\ failed_in_a_row = 0
    /\ verify_ret = NoResult

NoParameters == [classes |-> <<>>, events |-> <<>>]

\* generate_combinations called on any groups of sections
Init ==
    /\ pc = "generate"
    /\ parameters = NoParameters
    /\ combined_classes = <<>>
    /\ classes \in AllSeqs(DistinctSeqs({SectionPool[i] : i \in 1..Len(SectionPool)},
                                        MaxGroupSize), MaxGroups)
    /\ class_indices = <<>>
    /\ flattened_classes = <<>>
    /\ current_schedule = <<>>
    /\ results = <<>>
    /\ stack = <<>>
    /\ final_results = <<>>
    /\ SetupIdle
    /\ EventsIdle
    /\ UnitsIdle

\* setup_scrape after the groups of the requested courses were combined (line 87-93)
InitScrape ==
    /\ pc = "filter"
    /\ \E cls \in AllSeqs(ClassParamPool, MaxCourses) \ {<<>>},
          evs \in DistinctSeqs(EventPool, MaxEvents) :
          /\ parameters = [classes |-> cls, events |-> evs]
          /\ combined_classes = [i \in 1..Len(cls) |-> SectionsOf(cls[i])]
    /\ classes = <<>>
    /\ class_indices = <<>>
    /\ flattened_classes = <<>>
    /\ current_schedule = <<>>
    /\ results = <<>>
    /\ stack = <<>>
    /\ final_results = <<>>
    /\ SetupIdle
    /\ EventsIdle
    /\ UnitsIdle

----------------------------------------------------------------------------
(* setup_scrape, lines 95-96 *)

FilterClasses ==
    /\ pc = "filter"
    /\ LET filtered_classes == filter_classes(combined_classes, parameters) IN
       /\ classes' = filtered_classes
       /\ pc' = IF \A g \in 1..Len(filtered_classes) : filtered_classes[g] = <<>>
                THEN "done" ELSE "generate"
    /\ UNCHANGED <<setup_vars, event_vars, unit_vars>>
    /\ UNCHANGED <<parameters, combined_classes, class_indices, flattened_classes,
                   current_schedule, results, stack, final_results>>

----------------------------------------------------------------------------
(* generate_combinations and backtrack *)

\* lines 26-52: build the index structure and make the top-level call
GenerateCombinations ==
    /\ pc = "generate"
    /\ class_indices' = build_class_indices(classes)
    /\ flattened_classes' = build_flattened_classes(classes)
    /\ results' = <<>>
    /\ current_schedule' = <<>>
    /\ stack' = <<[current_group |-> 0, pos |-> 0]>>
    /\ pc' = "backtrack"
    /\ UNCHANGED <<setup_vars, event_vars, unit_vars>>
    /\ UNCHANGED <<parameters, combined_classes, classes, final_results>>

Frame == stack[Len(stack)]

\* a return that leaves the pushed class in the partial assignment
ReturnNoPop(schedule) ==
    LET callers == SubSeq(stack, 1, Len(stack) - 1) IN
    IF callers = <<>>
    THEN /\ stack' = <<>>
         /\ current_schedule' = schedule
         /\ pc' = "collect"
    ELSE /\ stack' = [callers EXCEPT ![Len(callers)].pos = @ + 1]
         /\ current_schedule' = schedule
         /\ pc' = pc

\* `return` of the running call: the caller pops the class it had pushed
\* (line 121) and moves to the next class of its loop; the return of the
\* top-level call ends the search
Return(schedule) ==
    LET callers == SubSeq(stack, 1, Len(stack) - 1) IN
    IF callers = <<>>
    THEN /\ stack' = <<>>
         /\ current_schedule' = schedule
         /\ pc' = "collect"
    ELSE /\ stack' = [callers EXCEPT ![Len(callers)].pos = @ + 1]
         /\ current_schedule' = SubSeq(schedule, 1, Len(schedule) - 1)
         /\ pc' = pc

\* variant of the base case that also fires on a group without sections and
\* saves the partial schedule
BacktrackBasePartial ==
    /\ pc = "backtrack"
    /\ \/ Frame.current_group = total_groups
       \/ class_indices[Frame.current_group + 1] = <<>>
    /\ results' = Append(results, current_schedule)
    /\ Return(current_schedule)
    /\ UNCHANGED <<setup_vars, event_vars, unit_vars>>
    /\ UNCHANGED <<parameters, combined_classes, classes, class_indices,
                   flattened_classes, final_results>>

\* a base case that puts the new combination in front of the earlier ones
BacktrackBasePrepend ==
    /\ pc = "backtrack"
    /\ Frame.current_group = total_groups
    /\ results' = IF Len(current_schedule) = total_groups
                  THEN <<current_schedule>> \o results
                  ELSE results
    /\ Return(current_schedule)
    /\ UNCHANGED <<parameters, combined_classes, classes, class_indices,
                   flattened_classes, final_results>>
    /\ UNCHANGED <<setup_vars, event_vars, unit_vars>>

\* a base case that records only non-empty assignments
BacktrackBaseNonEmpty ==
    /\ pc = "backtrack"
    /\ Frame.current_group = total_groups
    /\ results' = IF Len(current_schedule) = total_groups /\ current_schedule # <<>>
                  THEN Append(results, current_schedule)
                  ELSE results
    /\ Return(current_schedule)
    /\ UNCHANGED <<parameters, combined_classes, classes, class_indices,
                   flattened_classes, final_results>>
    /\ UNCHANGED <<setup_vars, event_vars, unit_vars>>

\* lines 94-104: base case
BacktrackBase ==
    /\ pc = "backtrack"
    /\ Frame.current_group = total_groups
    /\ results' = IF Len(current_schedule) = total_groups
                  THEN Append(results, current_schedule) ELSE results
    /\ Return(current_schedule)
    /\ UNCHANGED <<setup_vars, event_vars, unit_vars>>
    /\ UNCHANGED <<parameters, combined_classes, classes, class_indices,
                   flattened_classes, final_results>>

\* lines 107-119: the next class of the group is compatible: push and recurse
BacktrackPush ==
    /\ pc = "backtrack"
    /\ Frame.current_group # total_groups
    /\ Frame.pos < Len(class_indices[Frame.current_group + 1])
    /\ LET class_idx == class_indices[Frame.current_group + 1][Frame.pos + 1] IN
       /\ is_compatible(flattened_classes, class_idx, current_schedule) = TRUE
       /\ current_schedule' = Append(current_schedule, class_idx)
       /\ stack' = Append(stack, [current_group |-> Frame.current_group + 1, pos |-> 0])
    /\ UNCHANGED <<setup_vars, event_vars, unit_vars>>
    /\ UNCHANGED <<pc, parameters, combined_classes, classes, class_indices,
                   flattened_classes, results, final_results>>

\* variant of the incompatible branch that leaves the loop (`break`)
BacktrackSkipBreak ==
    /\ pc = "backtrack"
    /\ Frame.current_group # total_groups
    /\ Frame.pos < Len(class_indices[Frame.current_group + 1])
    /\ LET class_idx == class_indices[Frame.current_group + 1][Frame.pos + 1] IN
       is_compatible(flattened_classes, class_idx, current_schedule) = FALSE
    /\ stack' = [stack EXCEPT ![Len(stack)].pos = Len(class_indices[Frame.current_group + 1])]
    /\ UNCHANGED <<setup_vars, event_vars, unit_vars>>
    /\ UNCHANGED <<pc, parameters, combined_classes, classes, class_indices,
                   flattened_classes, current_schedule, results, final_results>>

\* lines 107-108, 123: the next class of the group is not compatible: try the next
BacktrackSkip ==
    /\ pc = "backtrack"
    /\ Frame.current_group # total_groups
    /\ Frame.pos < Len(class_indices[Frame.current_group + 1])
    /\ LET class_idx == class_indices[Frame.current_group + 1][Frame.pos + 1] IN
       is_compatible(flattened_classes, class_idx, current_schedule) = FALSE
    /\ stack' = [stack EXCEPT ![Len(stack)].pos = @ + 1]
    /\ UNCHANGED <<setup_vars, event_vars, unit_vars>>
    /\ UNCHANGED <<pc, parameters, combined_classes, classes, class_indices,
                   flattened_classes, current_schedule, results, final_results>>

\* line 107, 125: the loop over the group is exhausted
BacktrackLoopEnd ==
    /\ pc = "backtrack"
    /\ Frame.current_group # total_groups
    /\ Frame.pos = Len(class_indices[Frame.current_group + 1])
    /\ Return(current_schedule)
    /\ UNCHANGED <<setup_vars, event_vars, unit_vars>>
    /\ UNCHANGED <<parameters, combined_classes, classes, class_indices,
                   flattened_classes, results, final_results>>

\* lines 55-64: map the index lists back to Class objects
Collect ==
    /\ pc = "collect"
    /\ final_results' = [r \in 1..Len(results) |->
                            [k \in 1..Len(results[r]) |-> flattened_classes[results[r][k] + 1]]]
    /\ pc' = "done"
    /\ UNCHANGED <<setup_vars, event_vars, unit_vars>>
    /\ UNCHANGED <<parameters, combined_classes, classes, class_indices,
                   flattened_classes, current_schedule, results, stack>>

Backtrack == BacktrackBase \/ BacktrackPush \/ BacktrackSkip \/ BacktrackLoopEnd

Next == GenerateCombinations \/ Backtrack \/ Collect

Spec == Init /\ [][Next]_vars

NextScrape == FilterClasses \/ Next

SpecScrape == InitScrape /\ [][NextScrape]_vars

----------------------------------------------------------------------------
(* The conflict predicate of the specification (section 4.1), stated on     *)
(* sections independently of is_compatible and validate_time_ok             *)

SlotsConflict(a, b) ==
    a[2] /\ b[2] /\ a[1][1] < b[1][2] /\ b[1][1] < a[1][2]

SectionsConflict(s1, s2) ==
    \E b1 \in 1..Len(s1.classes), b2 \in 1..Len(s2.classes), d \in 1..5 :
        SlotsConflict(s1.classes[b1].days[d], s2.classes[b2].days[d])

SlotsTouch(a, b) ==
    a[2] /\ b[2] /\ (a[1][2] = b[1][1] \/ b[1][2] = a[1][1])

SectionsTouch(s1, s2) ==
    \E b1 \in 1..Len(s1.classes), b2 \in 1..Len(s2.classes), d \in 1..5 :
        SlotsTouch(s1.classes[b1].days[d], s2.classes[b2].days[d])

Members(group) == {group[k] : k \in 1..Len(group)}

\* position in the flattened array of the first member of group g
Offset(g) == Len(flatten(SubSeq(classes, 1, g - 1)))

\* all tuples of the cross-product of the groups, as flattened indices
RECURSIVE CrossProduct(_)
CrossProduct(n) ==
    IF n = 0 THEN {<<>>}
    ELSE {Append(t, Offset(n) + k - 1) : t \in CrossProduct(n - 1), k \in 1..Len(classes[n])}

SectionAt(idx) == flatten(classes)[idx + 1]

ValidTuples ==
    {t \in CrossProduct(Len(classes)) :
        \A i, j \in 1..Len(t) : i # j => ~SectionsConflict(SectionAt(t[i]), SectionAt(t[j]))}

----------------------------------------------------------------------------
(* Properties of generate_combinations *)

\* C1: every returned combination is pairwise conflict-free: no two distinct
\* positions hold classes with time blocks active on the same weekday whose
\* times satisfy start_i < end_j and start_j < end_i
C1_CombinationsConflictFree ==
    \A r \in 1..Len(final_results) :
        \A i, j \in 1..Len(final_results[r]) :
            i # j => ~SectionsConflict(final_results[r][i], final_results[r][j])

\* C1 witness: a combination over three groups was returned although two
\* sections of different groups conflict
C1_Witness ==
    /\ pc = "done"
    /\ \E r \in 1..Len(final_results) : Len(final_results[r]) = 3
    /\ \E g, h \in 1..Len(classes) :
          g # h /\ \E a \in Members(classes[g]), b \in Members(classes[h]) : SectionsConflict(a, b)

\* C2: every returned combination has one element per input group and its
\* k-th element is a member of group k
C2_OneSectionPerGroup ==
    \A r \in 1..Len(final_results) :
        /\ Len(final_results[r]) = Len(classes)
        /\ \A k \in 1..Len(final_results[r]) : final_results[r][k] \in Members(classes[k])

\* C2 witness: combinations were returned for groups that do not share a section
C2_Witness ==
    /\ pc = "done"
    /\ Len(classes) >= 2
    /\ Len(final_results) >= 2
    /\ \A g, h \in 1..Len(classes) : g # h => Members(classes[g]) \cap Members(classes[h]) = {}

\* C3: the returned combinations are exactly the tuples of the cross-product of
\* the groups whose members are pairwise non-conflicting, each returned once
C3_Exhaustive ==
    pc \in {"collect", "done"} =>
        /\ {results[r] : r \in 1..Len(results)} = ValidTuples
        /\ Cardinality(ValidTuples) = Len(results)
        /\ pc = "done" => Len(final_results) = Len(results)

\* C3 witness: several combinations returned while some tuple of the
\* cross-product was left out
C3_Witness ==
    /\ pc = "done"
    /\ Len(final_results) >= 2
    /\ Cardinality(CrossProduct(Len(classes))) > Len(final_results)

\* C4: with at least one empty input group nothing is returned
C4_EmptyGroupGivesNoCombination ==
    (\E g \in 1..Len(classes) : classes[g] = <<>>) =>
        results = <<>> /\ final_results = <<>>

\* C4 witness: the search ended with an empty last group behind two groups
\* that have compatible sections
C4_Witness ==
    /\ pc = "done"
    /\ Len(classes) = 3
    /\ classes[3] = <<>>
    /\ \E a \in Members(classes[1]), b \in Members(classes[2]) : ~SectionsConflict(a, b)

\* C5: two sections whose active slots on a shared day touch and nowhere
\* overlap are compatible, and they are returned together when they are the
\* members of two groups
C5_TouchingIsCompatible ==
    /\ \A i, j \in 0..(Len(flattened_classes) - 1) :
          (/\ SectionsTouch(flattened_classes[i + 1], flattened_classes[j + 1])
           /\ ~SectionsConflict(flattened_classes[i + 1], flattened_classes[j + 1]))
          => is_compatible(flattened_classes, i, <<j>>)
    /\ (pc = "done" /\ Len(classes) = 2) =>
          \A a \in Members(classes[1]), b \in Members(classes[2]) :
              (SectionsTouch(a, b) /\ ~SectionsConflict(a, b))
              => \E r \in 1..Len(final_results) : final_results[r] = <<a, b>>

\* C5 witness: a returned combination holds two sections that touch
C5_Witness ==
    /\ pc = "done"
    /\ \E r \in 1..Len(final_results) :
          \E i, j \in 1..Len(final_results[r]) :
              i # j /\ SectionsTouch(final_results[r][i], final_results[r][j])

----------------------------------------------------------------------------
(* Properties of filter_classes and of the two conflict tests *)

\* section 4.1, sectionConflictsWithBlocked: a slot active on day d strictly
\* overlaps a blocked event active on day d
BlockConflictsWithBlocked(days, events) ==
    \E d \in 1..5, e \in 1..Len(events) :
        /\ days[d][2]
        /\ events[e].days[d]
        /\ days[d][1][1] < events[e].time[2]
        /\ events[e].time[1] < days[d][1][2]

SectionConflictsWithBlocked(section, events) ==
    \E b \in 1..Len(section.classes) :
        BlockConflictsWithBlocked(section.classes[b].days, events)

\* a slot ends exactly when a blocked event of that day starts, or starts
\* exactly when it ends
SectionTouchesBlocked(section, events) ==
    \E b \in 1..Len(section.classes), d \in 1..5, e \in 1..Len(events) :
        LET slot == section.classes[b].days[d] IN
        /\ slot[2]
        /\ events[e].days[d]
        /\ (slot[1][2] = events[e].time[1] \/ slot[1][1] = events[e].time[2])

RECURSIVE IsSubSeq(_, _)
IsSubSeq(a, b) ==
    IF a = <<>> THEN TRUE
    ELSE IF b = <<>> THEN FALSE
    ELSE IF Head(a) = Head(b) THEN IsSubSeq(Tail(a), Tail(b))
    ELSE IsSubSeq(a, Tail(b))

\* C6: the blocked-event test is the strict overlap of the section test: among
\* the sections that pass the other criteria, the filter keeps exactly those
\* without a slot that strictly overlaps a blocked event of the same day, so a
\* section that only touches a blocked event is kept
C6_BlockedTestIsStrict ==
    pc # "filter" =>
        \A g \in 1..Len(combined_classes) :
            \A section \in Members(combined_classes[g]) :
                filter_keep(section, parameters.classes[g], <<>>) =>
                    (section \in Members(classes[g])
                       <=> ~SectionConflictsWithBlocked(section, parameters.events))

\* C7: no section kept by the filter, and no section of a returned
\* combination, has a time block with a slot that strictly overlaps a blocked
\* event active on the same day
C7_KeptSectionsAvoidBlocked ==
    /\ pc # "filter" =>
          \A g \in 1..Len(classes) :
              \A section \in Members(classes[g]) :
                  ~SectionConflictsWithBlocked(section, parameters.events)
    /\ \A r \in 1..Len(final_results) :
          \A k \in 1..Len(final_results[r]) :
              ~SectionConflictsWithBlocked(final_results[r][k], parameters.events)

\* C7 witness: combinations were returned after the filter rejected a section
\* whose first time block is free and whose later time block overlaps a
\* blocked event
C7_Witness ==
    /\ pc = "done"
    /\ final_results # <<>>
    /\ \E g \in 1..Len(combined_classes) :
          \E section \in Members(combined_classes[g]) :
              /\ Len(section.classes) >= 2
              /\ ~BlockConflictsWithBlocked(section.classes[1].days, parameters.events)
              /\ BlockConflictsWithBlocked(section.classes[2].days, parameters.events)
              /\ filter_keep(section, parameters.classes[g], <<>>)
              /\ section \notin Members(classes[g])

\* times written into inactive slots to see whether they take part in a test
ScrambleTimes == {<<900, 1200>>, <<0, 2359>>}

ScrambleDays(days, t) ==
    [d \in 1..5 |-> IF days[d][2] THEN days[d] ELSE <<t, FALSE>>]

ScrambleClass(class, t) ==
    [class EXCEPT !.classes =
        [b \in 1..Len(class.classes) |->
            [class.classes[b] EXCEPT !.days = ScrambleDays(class.classes[b].days, t)]]]

Scramble(all_classes, t) ==
    [i \in 1..Len(all_classes) |-> ScrambleClass(all_classes[i], t)]

OnlyDay(days, d) ==
    [i \in 1..5 |-> IF i = d THEN days[i] ELSE <<days[i][1], FALSE>>]

SectionsIn(groups) == UNION {Members(groups[g]) : g \in 1..Len(groups)}

TimeBlocksIn(groups) ==
    UNION {{section.classes[b] : b \in 1..Len(section.classes)} : section \in SectionsIn(groups)}

\* C8: an inactive slot never causes a conflict, whatever its start and end:
\* the verdict of is_compatible and of validate_time_ok does not change when
\* the inactive slots hold other times, and a single event rejects a single
\* day only if the section and the event are both active on that day
C8_InactiveNeverConflicts ==
    /\ \A t \in ScrambleTimes, i, j \in 0..(Len(flattened_classes) - 1) :
          is_compatible(Scramble(flattened_classes, t), i, <<j>>)
             = is_compatible(flattened_classes, i, <<j>>)
    /\ \A block \in TimeBlocksIn(combined_classes) :
          /\ \A t \in ScrambleTimes :
                validate_time_ok(parameters.events, ScrambleDays(block.days, t))
                   = validate_time_ok(parameters.events, block.days)
          /\ \A d \in 1..5, e \in 1..Len(parameters.events) :
                ~validate_time_ok(<<parameters.events[e]>>, OnlyDay(block.days, d))
                   => block.days[d][2] /\ parameters.events[e].days[d]

\* C8 witness: a section was kept and returned although a blocked event
\* covers one of its meeting times on a day on which the event is not active
C8_Witness ==
    /\ pc = "done"
    /\ \E r \in 1..Len(final_results) : \E k \in 1..Len(final_results[r]) :
          \E b \in 1..Len(final_results[r][k].classes), d \in 1..5,
             e \in 1..Len(parameters.events) :
              LET slot == final_results[r][k].classes[b].days[d]
                  event == parameters.events[e]
              IN /\ slot[2]
                 /\ ~event.days[d]
                 /\ slot[1][1] < event.time[2]
                 /\ event.time[1] < slot[1][2]

\* the slots whose start or end is the sentinel -1, switched off
DeactivateSentinelDays(days) ==
    [d \in 1..5 |->
        IF days[d][1][1] = -1 \/ days[d][1][2] = -1 THEN <<days[d][1], FALSE>> ELSE days[d]]

DeactivateSentinel(all_classes) ==
    [i \in 1..Len(all_classes) |->
        [all_classes[i] EXCEPT !.classes =
            [b \in 1..Len(all_classes[i].classes) |->
                [all_classes[i].classes[b] EXCEPT
                    !.days = DeactivateSentinelDays(all_classes[i].classes[b].days)]]]]

\* backtrack is about to test the next class of the current group (line 108)
AtCandidate ==
    /\ pc = "backtrack"
    /\ Frame.current_group # total_groups
    /\ Frame.pos < Len(class_indices[Frame.current_group + 1])

Candidate == class_indices[Frame.current_group + 1][Frame.pos + 1]

\* C9: a slot whose start or end is the sentinel -1 is treated as inactive:
\* whenever backtrack tests a class against the current schedule, and whenever
\* the filter validates a time block, the verdict of is_compatible and of
\* validate_time_ok is the one obtained with these slots switched off
C9_SentinelSlotIsInactive ==
    /\ AtCandidate =>
          is_compatible(flattened_classes, Candidate, current_schedule)
             = is_compatible(DeactivateSentinel(flattened_classes), Candidate, current_schedule)
    /\ \A block \in TimeBlocksIn(combined_classes) :
          validate_time_ok(parameters.events, block.days)
             = validate_time_ok(parameters.events, DeactivateSentinelDays(block.days))

\* C10: the filter returns as many groups as it was given, in the same order:
\* output group i is a sub-sequence of input group i, empty groups included
C10_FilterKeepsGroupStructure ==
    pc # "filter" =>
        /\ Len(classes) = Len(combined_classes)
        /\ \A i \in 1..Len(classes) : IsSubSeq(classes[i], combined_classes[i])

\* C10 witness: the filter emptied one group and kept sections of another
C10_Witness ==
    /\ pc = "done"
    /\ \E i, j \in 1..Len(classes) :
          /\ combined_classes[i] # <<>>
          /\ classes[i] = <<>>
          /\ classes[j] # <<>>
          /\ i < j

\* the requested section number, when given, is the number of some time block
SectionConstraintMet(section, desired_class) ==
    desired_class.section # "" =>
        desired_class.section \in {section.classes[b].section : b \in 1..Len(section.classes)}

\* the requested instructor, when given, names some time block's instructor,
\* upper and lower case taken as the same letter
InstructorConstraintMet(section, desired_class) ==
    desired_class.instructor # <<>> =>
        to_uppercase(desired_class.instructor)
            \in {to_uppercase(section.classes[b].instructor) : b \in 1..Len(section.classes)}

\* C11: with no blocked events, the filter keeps a section that has at least one
\* time block exactly when the section constraint is empty or equals a time
\* block's section number, and the instructor constraint is empty or equals a
\* time block's instructor ignoring ASCII case
C11_ConstraintsDecideWithoutEvents ==
    (pc # "filter" /\ parameters.events = <<>>) =>
        \A i \in 1..Len(combined_classes) :
            \A section \in Members(combined_classes[i]) :
                section.classes # <<>> =>
                    (section \in Members(classes[i])
                        <=> /\ SectionConstraintMet(section, parameters.classes[i])
                            /\ InstructorConstraintMet(section, parameters.classes[i]))

\* C11 witness: without blocked events a section was kept for an instructor
\* spelled in another case, and a section was rejected by a section number
C11_Witness ==
    /\ pc # "filter"
    /\ parameters.events = <<>>
    /\ \E i \in 1..Len(classes) :
          /\ parameters.classes[i].instructor # <<>>
          /\ \E section \in Members(classes[i]) :
                \A b \in 1..Len(section.classes) :
                    section.classes[b].instructor # parameters.classes[i].instructor
    /\ \E i \in 1..Len(classes) :
          /\ parameters.classes[i].section # ""
          /\ \E section \in Members(combined_classes[i]) :
                section.classes # <<>> /\ section \notin Members(classes[i])

\* a section has an active weekly slot when a day of one of its time blocks is active
HasActiveSlot(section) ==
    \E b \in 1..Len(section.classes) :
        \E d \in 1..5 : section.classes[b].days[d][2]

\* C12: the filter never keeps a section with no active weekly slot: a section
\* without time blocks, or whose time blocks have no active day, is rejected
C12_KeptSectionsHaveActiveSlot ==
    pc # "filter" =>
        \A section \in SectionsIn(classes) : HasActiveSlot(section)

----------------------------------------------------------------------------
(* setup_scrape with the cache, the class search site and the schedules table *)

\* i32 Display: the decimal digits, with a leading "-" for a negative number
RECURSIVE nat_to_string(_)
nat_to_string(n) ==
    IF n < 10 THEN <<Digits[n + 1]>>
    ELSE nat_to_string(n \div 10) \o <<Digits[(n % 10) + 1]>>

to_string(n) ==
    IF n < 0 THEN <<"-">> \o nat_to_string(0 - n) ELSE nat_to_string(n)

\* serde_json::to_string: a struct becomes a JSON object, the list of its
\* fields as <<key, value>> in the order of declaration; a Vec, an array or a
\* tuple becomes a JSON array
json_time_block(block) ==
    << <<"section", block.section>>,
       <<"location", block.location>>,
       <<"days", block.days>>,
       <<"instructor", block.instructor>> >>

json_class(class) ==
    << <<"code", class.code>>,
       <<"name", class.name>>,
       <<"description", class.description>>,
       <<"classes", [b \in 1..Len(class.classes) |-> json_time_block(class.classes[b])]>> >>

\* serde_json::to_string of a combination (Vec<Class>)
json_schedule(schedule) ==
    [k \in 1..Len(schedule) |-> json_class(schedule[k])]

\* the value of a key of a JSON object
json_field(object, key) ==
    object[CHOOSE i \in 1..Len(object) : object[i][1] = key][2]

\* serde_json::from_str::<Class>: the struct is filled from the keys of the object
from_str(json_data) ==
    [code |-> json_field(json_data, "code"),
     name |-> json_field(json_data, "name"),
     description |-> json_field(json_data, "description"),
     classes |->
         LET blocks == json_field(json_data, "classes") IN
         [b \in 1..Len(blocks) |->
             [section |-> json_field(blocks[b], "section"),
              location |-> json_field(blocks[b], "location"),
              days |-> json_field(blocks[b], "days"),
              instructor |-> json_field(blocks[b], "instructor")]]]

\* format!("{}{}", code, name)
classname(class) == class.code \o class.name

\* the composite id of a row of the table classes (lines 253-256)
RECURSIVE section_id(_, _)
section_id(id, blocks) ==
    IF blocks = <<>> THEN id
    ELSE section_id(id \o "/" \o Head(blocks).section, Tail(blocks))

\* INSERT OR REPLACE: a row with the same id is deleted, the new row is appended
insert_or_replace(table, row) ==
    SelectSeq(table, LAMBDA r : r.id # row.id) \o <<row>>

RECURSIVE save_sections(_, _)
save_sections(sections, table) ==
    IF sections = <<>> THEN table
    ELSE save_sections(Tail(sections),
             insert_or_replace(table,
                 [id |-> section_id(classname(Head(sections)), Head(sections).classes),
                  classname |-> classname(Head(sections)),
                  data |-> json_class(Head(sections))]))

\* ClassRepository::save_sections_batch, committed
save_sections_batch(groups, table) == save_sections(flatten(groups), table)

\* ClassRepository::get_by_name: the rows of a course, deserialized
get_by_name(name, table) ==
    LET rows == SelectSeq(table, LAMBDA r : r.classname = name)
    IN [k \in 1..Len(rows) |-> from_str(rows[k].data)]

\* perform_scrape, lines 188-266: a course with zero search results is skipped
RECURSIVE perform_scrape(_, _)
perform_scrape(class_params, site) ==
    IF class_params = <<>> THEN <<>>
    ELSE LET search_results == site[classname(Head(class_params))] IN
         IF search_results = <<>>
         THEN perform_scrape(Tail(class_params), site)
         ELSE <<search_results>> \o perform_scrape(Tail(class_params), site)

\* lines 79-82: the k-th scraped group is stored under the k-th scrape index
scraped_results_map(scraped_data, indices) ==
    [index \in {indices[k] : k \in 1..Len(scraped_data)} |->
        scraped_data[CHOOSE k \in 1..Len(scraped_data) : indices[k] = index]]

\* lines 87-93
combine(n, cached, scraped) ==
    [i \in 1..n |->
        IF (i - 1) \in DOMAIN scraped THEN scraped[i - 1]
        ELSE IF (i - 1) \in DOMAIN cached THEN cached[i - 1]
        ELSE <<>>]

\* lines 428-434: the INSERT of the k-th (id, schedule) pair and of those after
\* it inside the open transaction; `failing` is the step an error is injected at
\* (0 for none), and an id that the transaction already inserted violates the
\* PRIMARY KEY of the table (line 618)
RECURSIVE insert_schedules(_, _, _, _, _)
insert_schedules(ids, schedules, k, rows, failing) ==
    IF k > Min(Len(ids), Len(schedules)) THEN [ok |-> TRUE, rows |-> rows]
    ELSE IF failing = k + 1 \/ \E r \in rows : r.id = ids[k]
    THEN [ok |-> FALSE, rows |-> rows]
    ELSE insert_schedules(ids, schedules, k + 1,
             rows \cup {[id |-> ids[k], data |-> json_schedule(schedules[k])]}, failing)

\* a transaction whose statements take effect one by one and stay on an error
transaction_autocommit(ids, schedules, table, failing) ==
    LET n == Min(Len(ids), Len(schedules))
        inserted == insert_schedules(ids, schedules, 1, {}, failing)
    IN IF failing = 1 THEN [ok |-> FALSE, table |-> table]
       ELSE IF ~inserted.ok THEN [ok |-> FALSE, table |-> inserted.rows]
       ELSE IF failing = n + 2 THEN [ok |-> FALSE, table |-> inserted.rows]
       ELSE [ok |-> TRUE, table |-> inserted.rows]

\* lines 420-437, the closure of save_batch: step 1 is pool.get, the begin of
\* the transaction, DELETE FROM schedules and prepare; step k + 1 the k-th
\* INSERT; step n + 2 the commit.  A `?` that returns early drops tx, which
\* rolls the transaction back: the table is as it was before the call
transaction(ids, schedules, table, failing) ==
    LET n == Min(Len(ids), Len(schedules))
        inserted == insert_schedules(ids, schedules, 1, {}, failing)
    IN IF failing = 1 THEN [ok |-> FALSE, table |-> table]
       ELSE IF ~inserted.ok THEN [ok |-> FALSE, table |-> table]
       ELSE IF failing = n + 2 THEN [ok |-> FALSE, table |-> table]
       ELSE [ok |-> TRUE, table |-> inserted.rows]

\* ScheduleRepository::save_batch: DELETE, then one INSERT per (id, schedule), in
\* one transaction; a failing step leaves the table as it was
save_batch(ids, schedules, table, db_ok) ==
    transaction(ids, schedules, table, IF db_ok THEN 0 ELSE 1)

Ok(value) == [status |-> "Ok", value |-> value]

Err == [status |-> "Err", value |-> <<>>]

\* the requests of the full run: each course unconstrained, and CSC 116 section 002
SetupParamPool ==
    { class_param \in ClassParamPool :
        /\ class_param.instructor = <<>>
        /\ class_param.section # "" => class_param.code = "CSC" }

SetupEventLists == {<<>>, <<[time |-> <<1000, 1100>>, days |-> Mon]>>}

\* what an earlier generation left in the table schedules
EarlierGeneration == <<<<SecB2>>>>

EarlierSchedules ==
    save_batch([k \in 1..Len(EarlierGeneration) |-> json_schedule(EarlierGeneration[k])],
               EarlierGeneration, {}, TRUE).table

\* setup_scrape is called: every course is cached, or listed by the site, or
\* searched with zero results
InitSetup ==
    /\ pc = "setup"
    /\ \E cls \in AllSeqs(SetupParamPool, MaxCourses), evs \in SetupEventLists :
          parameters = [classes |-> cls, events |-> evs]
    /\ \E status \in [1..Len(Catalog) -> {"cached", "listed", "unlisted"}] :
          /\ classes_table =
                save_sections_batch([c \in 1..Len(Catalog) |->
                                        IF status[c] = "cached" THEN Catalog[c] ELSE <<>>], <<>>)
          /\ portal = [name \in {classname(CourseOf(c)) : c \in 1..Len(Catalog)} |->
                          LET c == CHOOSE c \in 1..Len(Catalog) : classname(CourseOf(c)) = name
                          IN IF status[c] = "unlisted" THEN <<>> ELSE Catalog[c]]
    /\ schedules_table \in {{}, EarlierSchedules}
    /\ combined_classes = <<>>
    /\ classes = <<>>
    /\ class_indices = <<>>
    /\ flattened_classes = <<>>
    /\ current_schedule = <<>>
    /\ results = <<>>
    /\ stack = <<>>
    /\ final_results = <<>>
    /\ cached_results = <<>>
    /\ classes_to_scrape_params = <<>>
    /\ scrape_indices = <<>>
    /\ driver_started = FALSE
    /\ ret = NoResult
    /\ EventsIdle
    /\ UnitsIdle

generator_vars == <<classes, class_indices, flattened_classes, current_schedule,
                    results, stack, final_results>>

\* lines 35-37
SetupReject ==
    /\ pc = "setup"
    /\ parameters.classes = <<>>
    /\ ret' = Err
    /\ pc' = "returned"
    /\ UNCHANGED <<parameters, combined_classes, generator_vars, event_vars, unit_vars>>
    /\ UNCHANGED <<classes_table, schedules_table, portal, cached_results,
                   classes_to_scrape_params, scrape_indices, driver_started>>

\* a lookup loop that sends every requested course to the scraper
LookupCacheScrapeAll ==
    /\ pc = "setup"
    /\ parameters.classes # <<>>
    /\ \E failed \in SUBSET (0..(Len(parameters.classes) - 1)) :
          LET database_classes(index) ==
                  IF index \in failed THEN <<>>
                  ELSE get_by_name(classname(parameters.classes[index + 1]), classes_table)
              hits == {index \in 0..(Len(parameters.classes) - 1) :
                          database_classes(index) # <<>>}
              misses == [k \in 1..Len(parameters.classes) |-> k - 1]
          IN /\ cached_results' = [index \in hits |-> database_classes(index)]
             /\ scrape_indices' = misses
             /\ classes_to_scrape_params' =
                   [k \in 1..Len(misses) |-> parameters.classes[misses[k] + 1]]
    /\ pc' = "scrape"
    /\ UNCHANGED <<parameters, combined_classes, generator_vars, event_vars, unit_vars>>
    /\ UNCHANGED <<classes_table, schedules_table, portal, driver_started, ret>>

\* lines 43-60: look every requested course up in the cache; a lookup that
\* fails counts as an empty answer
LookupCache ==
    /\ pc = "setup"
    /\ parameters.classes # <<>>
    /\ \E failed \in SUBSET (0..(Len(parameters.classes) - 1)) :
          LET database_classes(index) ==
                  IF index \in failed THEN <<>>
                  ELSE get_by_name(classname(parameters.classes[index + 1]), classes_table)
              hits == {index \in 0..(Len(parameters.classes) - 1) :
                          database_classes(index) # <<>>}
              misses == SelectSeq([k \in 1..Len(parameters.classes) |-> k - 1],
                                  LAMBDA index : index \notin hits)
          IN /\ cached_results' = [index \in hits |-> database_classes(index)]
             /\ scrape_indices' = misses
             /\ classes_to_scrape_params' =
                   [k \in 1..Len(misses) |-> parameters.classes[misses[k] + 1]]
    /\ pc' = "scrape"
    /\ UNCHANGED <<parameters, combined_classes, generator_vars, event_vars, unit_vars>>
    /\ UNCHANGED <<classes_table, schedules_table, portal, driver_started, ret>>

\* lines 62-93 when some course missed the cache: start the driver, scrape, save
\* the scraped sections, and combine them with the cached ones
ScrapeMissing ==
    /\ pc = "scrape"
    /\ classes_to_scrape_params # <<>>
    /\ \/ \* start_chromedriver fails
          /\ driver_started' = FALSE
          /\ ret' = Err
          /\ pc' = "returned"
          /\ UNCHANGED <<classes_table, combined_classes>>
       \/ \* perform_scrape fails
          /\ driver_started' = TRUE
          /\ ret' = Err
          /\ pc' = "returned"
          /\ UNCHANGED <<classes_table, combined_classes>>
       \/ \E saved \in BOOLEAN :
             LET scraped_data == perform_scrape(classes_to_scrape_params, portal) IN
             /\ driver_started' = TRUE
             /\ classes_table' = IF saved THEN save_sections_batch(scraped_data, classes_table)
                                 ELSE classes_table
             /\ combined_classes' =
                   combine(Len(parameters.classes), cached_results,
                           scraped_results_map(scraped_data, scrape_indices))
             /\ pc' = "filter"
             /\ UNCHANGED ret
    /\ UNCHANGED <<parameters, generator_vars, event_vars, unit_vars>>
    /\ UNCHANGED <<schedules_table, portal, cached_results, classes_to_scrape_params,
                   scrape_indices>>

\* lines 62 and 87-93 when every course was found in the cache
CombineCached ==
    /\ pc = "scrape"
    /\ classes_to_scrape_params = <<>>
    /\ combined_classes' = combine(Len(parameters.classes), cached_results, <<>>)
    /\ pc' = "filter"
    /\ UNCHANGED <<parameters, generator_vars, event_vars, unit_vars, setup_vars>>

\* line 96: every filtered group is empty
ReturnNoSections ==
    /\ pc = "done"
    /\ \A g \in 1..Len(classes) : classes[g] = <<>>
    /\ ret' = Ok(<<>>)
    /\ pc' = "returned"
    /\ UNCHANGED <<parameters, combined_classes, generator_vars, event_vars, unit_vars>>
    /\ UNCHANGED <<classes_table, schedules_table, portal, cached_results,
                   classes_to_scrape_params, scrape_indices, driver_started>>

\* lines 99-105: serialize the combinations and replace the stored schedules
SaveSchedules ==
    /\ pc = "done"
    /\ \E g \in 1..Len(classes) : classes[g] # <<>>
    /\ \E db_ok \in BOOLEAN :
          LET ids == [k \in 1..Len(final_results) |-> json_schedule(final_results[k])]
              saved == save_batch(ids, final_results, schedules_table, db_ok)
          IN /\ schedules_table' = saved.table
             /\ ret' = IF saved.ok THEN Ok(final_results) ELSE Err
    /\ pc' = "returned"
    /\ UNCHANGED <<parameters, combined_classes, generator_vars, event_vars, unit_vars>>
    /\ UNCHANGED <<classes_table, portal, cached_results, classes_to_scrape_params,
                   scrape_indices, driver_started>>

NextSetup ==
    \/ SetupReject
    \/ LookupCache
    \/ ScrapeMissing
    \/ CombineCached
    \/ NextScrape
    \/ ReturnNoSections
    \/ SaveSchedules

SpecSetup == InitSetup /\ [][NextSetup]_vars

\* C13: the groups handed to filter_classes are in request order: group i, and
\* so filtered group i, holds only sections of the i-th requested course,
\* whichever courses were cached or scraped and however many results a search had
C13_GroupsInRequestOrder ==
    /\ \A i \in 1..Len(combined_classes) :
          \A section \in Members(combined_classes[i]) :
              /\ section.code = parameters.classes[i].code
              /\ section.name = parameters.classes[i].name
    /\ \A i \in 1..Len(classes) :
          \A section \in Members(classes[i]) :
              /\ section.code = parameters.classes[i].code
              /\ section.name = parameters.classes[i].name

\* C14: whenever setup_scrape returns Ok(combos), the table schedules holds
\* exactly one row per returned combination, keyed by its serialized content,
\* and no row of an earlier generation
C14_SchedulesReplacedWholesale ==
    ret.status = "Ok" =>
        /\ schedules_table =
              {[id |-> json_schedule(ret.value[k]), data |-> json_schedule(ret.value[k])] :
                  k \in 1..Len(ret.value)}
        /\ Cardinality(schedules_table) = Len(ret.value)

----------------------------------------------------------------------------
(* EventProcessor *)

START_HOUR == 8

END_HOUR == 20

TOTAL_MINUTES_IN_VIEW == (END_HOUR - START_HOUR) * 60

\* format!("{:04}", n) for n > 0: at least four digits, padded with zeros
pad_4(n) ==
    LET digits == nat_to_string(n) IN
    IF Len(digits) >= 4 THEN digits
    ELSE [k \in 1..(4 - Len(digits)) |-> "0"] \o digits

format_time_int_to_string(time_int) ==
    IF time_int <= 0 THEN <<"0", "0", ":", "0", "0">>
    ELSE LET time_str == pad_4(time_int)
         IN SubSeq(time_str, 1, 2) \o <<":">> \o SubSeq(time_str, 3, 4)

get_minutes_since_start(time_int) ==
    IF time_int <= 0 THEN 0
    ELSE LET hours == time_int \div 100
             minutes == time_int % 100
         IN (hours * 60 + minutes) - (START_HOUR * 60)

\* format!("{:.2}%", x) for the f64 x = num / den, den > 0: the decimal expansion
\* rounded to two places, ties to even; the values of the explored inputs are
\* never within floating-point error of a tie
format_percent(num, den) ==
    LET abs == IF num < 0 THEN 0 - num ELSE num
        q == (abs * 100) \div den
        r == (abs * 100) % den
        hundredths == IF 2 * r > den \/ (2 * r = den /\ q % 2 = 1) THEN q + 1 ELSE q
        cents == hundredths % 100
    IN (IF num < 0 THEN <<"-">> ELSE <<>>)
          \o nat_to_string(hundredths \div 100)
          \o <<".", Digits[(cents \div 10) + 1], Digits[(cents % 10) + 1], "%">>

event_to_processed_event(event) ==
    LET start_time_int == IF event.start_time > 0 THEN event.start_time ELSE 0
        end_time_int == IF event.end_time > 0 THEN event.end_time ELSE 0
    IN [id |-> event.id,
        title |-> event.title,
        start_time |-> event.start_time,
        end_time |-> event.end_time,
        day |-> event.day,
        professor |-> event.professor,
        description |-> event.description,
        start_time_int |-> start_time_int,
        end_time_int |-> end_time_int,
        start_time_formatted |-> format_time_int_to_string(start_time_int),
        end_time_formatted |-> format_time_int_to_string(end_time_int),
        width |-> <<"1", "0", "0", "%">>,
        left |-> <<"0", "%">>,
        top_position |-> <<"0", "%">>,
        height_position |-> <<"0", "%">>]

\* variant that asks for one of the two times only
has_valid_time_either(event) ==
    event.start_time_int > 0 \/ event.end_time_int > 0

has_valid_time(event) ==
    event.start_time_int > 0 /\ event.end_time_int > 0

\* variant that takes the mask for the number of a single day
day_is_index(day, day_bit_index) ==
    day = 2 ^ day_bit_index

\* (day & (1 << day_bit_index)) != 0 on the two's complement i32
day_bit_set(day, day_bit_index) ==
    (day \div (2 ^ day_bit_index)) % 2 = 1

\* the list pushed under one day key: the events of that day, in input order
day_list(processed_events, day_bit_index, timed) ==
    SelectSeq(processed_events,
              LAMBDA event : /\ day_bit_set(event.day, day_bit_index)
                             /\ has_valid_time(event) = timed)

\* one of the two maps of group_events_by_day: a key exists once a push was made
group_events_by_day(processed_events, timed) ==
    [day_key \in {to_string(b) : b \in {b \in 0..6 :
                                         day_list(processed_events, b, timed) # <<>>}} |->
        day_list(processed_events, CHOOSE b \in 0..6 : to_string(b) = day_key, timed)]

\* variant of the insertion that puts an event before those of equal start
insert_before_equal(sorted, event) ==
    LET before == SelectSeq(sorted, LAMBDA e : e.start_time_int < event.start_time_int)
    IN before \o <<event>> \o SubSeq(sorted, Len(before) + 1, Len(sorted))

\* the place of an event in a list sorted by start_time_int: after every event
\* that does not start later (sorted is sorted, so these are a prefix)
insert_by_start(sorted, event) ==
    LET before == SelectSeq(sorted, LAMBDA e : e.start_time_int <= event.start_time_int)
    IN before \o <<event>> \o SubSeq(sorted, Len(before) + 1, Len(sorted))

\* day_events.sort_by(|a, b| a.start_time_int.cmp(&b.start_time_int)): a stable sort
RECURSIVE sort_by_start(_)
sort_by_start(day_events) ==
    IF day_events = <<>> THEN <<>>
    ELSE insert_by_start(sort_by_start(SubSeq(day_events, 1, Len(day_events) - 1)),
                         day_events[Len(day_events)])

\* variant that compares with the last event of the group only
overlaps_with_last(day_events, current_group, event_start_minutes) ==
    /\ current_group # <<>>
    /\ event_start_minutes <
          get_minutes_since_start(day_events[current_group[Len(current_group)] + 1].end_time_int)

\* lines 263-268
overlaps_with_group(day_events, current_group, event_start_minutes) ==
    \E g \in 1..Len(current_group) :
        event_start_minutes <
            get_minutes_since_start(day_events[current_group[g] + 1].end_time_int)

\* lines 256-285: the loop from event i on, and the final push
RECURSIVE overlap_groups(_, _, _, _)
overlap_groups(day_events, i, groups, current_group) ==
    IF i = Len(day_events)
    THEN IF current_group # <<>> THEN Append(groups, current_group) ELSE groups
    ELSE LET event_start_minutes == get_minutes_since_start(day_events[i + 1].start_time_int) IN
         IF overlaps_with_group(day_events, current_group, event_start_minutes)
         THEN overlap_groups(day_events, i + 1, groups, Append(current_group, i))
         ELSE overlap_groups(day_events, i + 1,
                             IF current_group # <<>> THEN Append(groups, current_group)
                             ELSE groups,
                             <<i>>)

calculate_overlap_groups(unsorted_events) ==
    LET day_events == sort_by_start(unsorted_events)
        groups == overlap_groups(day_events, 0, <<>>, <<>>)
    IN [p \in 1..Len(day_events) |->
           LET group == groups[CHOOSE g \in 1..Len(groups) :
                                  \E k \in 1..Len(groups[g]) : groups[g][k] = p - 1]
               index == (CHOOSE k \in 1..Len(group) : group[k] = p - 1) - 1
           IN [day_events[p] EXCEPT
                  !.width = format_percent(100, Len(group)),
                  !.left = format_percent(index * 100, Len(group))]]

\* variant without the clamp at zero
signed_duration(start_minutes, end_minutes) ==
    end_minutes - start_minutes

\* (end_minutes - start_minutes).max(0)
duration(start_minutes, end_minutes) ==
    IF end_minutes - start_minutes > 0 THEN end_minutes - start_minutes ELSE 0

calculate_positioning(day_events) ==
    [p \in 1..Len(day_events) |->
        LET start_minutes == get_minutes_since_start(day_events[p].start_time_int)
            end_minutes == get_minutes_since_start(day_events[p].end_time_int)
        IN [day_events[p] EXCEPT
               !.top_position =
                   format_percent(start_minutes * 100, TOTAL_MINUTES_IN_VIEW),
               !.height_position =
                   format_percent(duration(start_minutes, end_minutes) * 100,
                                  TOTAL_MINUTES_IN_VIEW)]]

MaxRawEvents == 3

calendar_event(id, start_time, end_time, day) ==
    [id |-> id, title |-> "event", start_time |-> start_time, end_time |-> end_time,
     day |-> day, professor |-> "", description |-> ""]

\* bit 0 is Sunday, bit 1 Monday, ..., bit 6 Saturday
RawEventPool ==
    { calendar_event("a", 900, 1200, 10),    \* Mon+Wed, long
      calendar_event("b", 930, 1000, 2),     \* Mon, inside a
      calendar_event("c", 1030, 1100, 10),   \* Mon+Wed, inside a, after b
      calendar_event("d", 900, 1000, 2),     \* Mon, starts with a
      calendar_event("e", -1, 0, 132),       \* Tue and bit 7, no time
      calendar_event("f", 700, 730, 4),      \* Tue, before the window
      calendar_event("g", 1400, 1300, 4),    \* Tue, ends before it starts
      calendar_event("h", 2030, 2200, 65),   \* Sun+Sat, after the window
      calendar_event("i", 900, 0, 8) }       \* Wed, a start but no end

InitEvents ==
    /\ ep_pc = "start"
    /\ raw_events \in DistinctSeqs(RawEventPool, MaxRawEvents)
    /\ events_by_day = <<>>
    /\ no_time_events_by_day = <<>>
    /\ days_to_do = {}
    /\ pc = "idle"
    /\ parameters = NoParameters
    /\ combined_classes = <<>>
    /\ classes = <<>>
    /\ class_indices = <<>>
    /\ flattened_classes = <<>>
    /\ current_schedule = <<>>
    /\ results = <<>>
    /\ stack = <<>>
    /\ final_results = <<>>
    /\ SetupIdle
    /\ UnitsIdle

scrape_vars == <<pc, parameters, combined_classes, generator_vars, setup_vars>>

\* lines 339-344
ProcessNoEvents ==
    /\ ep_pc = "start"
    /\ raw_events = <<>>
    /\ events_by_day' = <<>>
    /\ no_time_events_by_day' = <<>>
    /\ days_to_do' = {}
    /\ ep_pc' = "done"
    /\ UNCHANGED <<raw_events, scrape_vars, unit_vars>>

\* lines 347-353
GroupEvents ==
    /\ ep_pc = "start"
    /\ raw_events # <<>>
    /\ LET processed_events ==
               [k \in 1..Len(raw_events) |-> event_to_processed_event(raw_events[k])]
       IN /\ events_by_day' = group_events_by_day(processed_events, TRUE)
          /\ no_time_events_by_day' = group_events_by_day(processed_events, FALSE)
    /\ days_to_do' = DOMAIN events_by_day'
    /\ ep_pc' = "layout"
    /\ UNCHANGED <<raw_events, scrape_vars, unit_vars>>

\* variant that works out the columns in the first day list it visits only
LayoutDayFirstOnly ==
    /\ ep_pc = "layout"
    /\ \E day_key \in days_to_do :
          /\ events_by_day' =
                [events_by_day EXCEPT
                    ![day_key] =
                        IF days_to_do = DOMAIN events_by_day
                        THEN calculate_positioning(calculate_overlap_groups(@))
                        ELSE calculate_positioning(sort_by_start(@))]
          /\ days_to_do' = days_to_do \ {day_key}
    /\ UNCHANGED <<raw_events, no_time_events_by_day, ep_pc, scrape_vars, unit_vars>>

\* lines 356-361: one turn of the loop over events_by_day.values_mut(), which
\* visits the day lists in an order the HashMap chooses
LayoutDay ==
    /\ ep_pc = "layout"
    /\ \E day_key \in days_to_do :
          /\ events_by_day' =
                [events_by_day EXCEPT
                    ![day_key] = calculate_positioning(calculate_overlap_groups(@))]
          /\ days_to_do' = days_to_do \ {day_key}
    /\ UNCHANGED <<raw_events, no_time_events_by_day, ep_pc, scrape_vars, unit_vars>>

\* lines 364-367
ReturnProcessed ==
    /\ ep_pc = "layout"
    /\ days_to_do = {}
    /\ ep_pc' = "done"
    /\ UNCHANGED <<raw_events, events_by_day, no_time_events_by_day, days_to_do, scrape_vars, unit_vars>>

NextEvents ==
    \/ ProcessNoEvents
    \/ GroupEvents
    \/ LayoutDay
    \/ ReturnProcessed

SpecEvents == InitEvents /\ [][NextEvents]_vars

----------------------------------------------------------------------------
(* Claims about the event processor *)

\* the value of process_events as a function of its argument alone
ResultOf(input) ==
    IF input = <<>> THEN [events_by_day |-> <<>>, no_time_events_by_day |-> <<>>]
    ELSE LET processed_events ==
                 [k \in 1..Len(input) |-> event_to_processed_event(input[k])]
             timed == group_events_by_day(processed_events, TRUE)
         IN [events_by_day |->
                 [day_key \in DOMAIN timed |->
                     calculate_positioning(calculate_overlap_groups(timed[day_key]))],
             no_time_events_by_day |-> group_events_by_day(processed_events, FALSE)]

\* C15: process_events is deterministic and has no hidden state: whatever order
\* the day lists are visited in, the result is one function of the input list:
\* the same keys in both maps and, per key, the same sequence of events with the
\* same width, left, top and height
C15_ResultDependsOnInputOnly ==
    ep_pc = "done" =>
        /\ events_by_day = ResultOf(raw_events).events_by_day
        /\ no_time_events_by_day = ResultOf(raw_events).no_time_events_by_day

\* C15 witness: a result with several timed day lists, so that the visiting
\* order was a choice, one of them holding events side by side
C15_Witness ==
    /\ ep_pc = "done"
    /\ Cardinality(DOMAIN events_by_day) >= 2
    /\ \E day_key \in DOMAIN events_by_day :
          \E p \in 1..Len(events_by_day[day_key]) :
              events_by_day[day_key][p].width # <<"1", "0", "0", ".", "0", "0", "%">>

\* the list of a day in one of the maps, empty when the key is absent
Bucket(map, day_key) == IF day_key \in DOMAIN map THEN map[day_key] ELSE <<>>

DayKey(b) == <<Digits[b + 1]>>

\* the copies of a raw event in the two lists of day b
Copies(event, b) ==
    LET list == Bucket(events_by_day, DayKey(b)) \o Bucket(no_time_events_by_day, DayKey(b))
    IN SelectSeq(list, LAMBDA e : e.id = event.id)

\* day b is set in the mask: what is left of the mask below bit b + 1 reaches 2^b
DayIsSet(day, b) == (day % (2 ^ (b + 1))) >= 2 ^ b

AllCopies(event) ==
    UNION { {Copies(event, b)[k] : k \in 1..Len(Copies(event, b))} : b \in 0..6 }

\* the fields of a copy that are laid out per day
PerDay(e) == [e EXCEPT !.width = <<>>, !.left = <<>>]

\* C16: an event appears exactly once in the bucket of each day set in bits
\* 0..6 of its mask and in no other day's bucket, and its copies in the
\* different day buckets have identical fields
C16_CopiesIdentical ==
    ep_pc = "done" =>
        \A k \in 1..Len(raw_events) :
            /\ \A b \in 0..6 :
                  Len(Copies(raw_events[k], b)) = IF DayIsSet(raw_events[k].day, b) THEN 1 ELSE 0
            /\ Cardinality(AllCopies(raw_events[k])) <= 1

\* C16 amended: an event appears exactly once in the bucket of each day set in
\* bits 0..6 of its mask and in no other day's bucket; its copies agree on every
\* field except width and left, which are laid out per day
C16_CopiesIdenticalButColumns ==
    ep_pc = "done" =>
        \A k \in 1..Len(raw_events) :
            /\ \A b \in 0..6 :
                  Len(Copies(raw_events[k], b)) = IF DayIsSet(raw_events[k].day, b) THEN 1 ELSE 0
            /\ Cardinality({PerDay(e) : e \in AllCopies(raw_events[k])}) <= 1

\* C16 witness: an event of two days whose copies differ in width
C16_Witness ==
    /\ ep_pc = "done"
    /\ \E k \in 1..Len(raw_events) :
          /\ Cardinality({b \in 0..6 : DayIsSet(raw_events[k].day, b)}) >= 2
          /\ Cardinality(AllCopies(raw_events[k])) >= 2

\* the ids of the events of a list
Ids(list) == {list[p].id : p \in 1..Len(list)}

\* C17: process_events partitions by time validity: for every event and every
\* day set in its mask, the event is in eventsByDay[day] iff its start and end
\* are both positive, and otherwise in noTimeEventsByDay[day], never in both;
\* no map holds an empty list, and empty input yields two empty maps
C17_PartitionByTimeValidity ==
    ep_pc = "done" =>
        /\ \A k \in 1..Len(raw_events) : \A b \in 0..6 :
              DayIsSet(raw_events[k].day, b) =>
                  LET event == raw_events[k]
                      timed == event.id \in Ids(Bucket(events_by_day, DayKey(b)))
                      untimed == event.id \in Ids(Bucket(no_time_events_by_day, DayKey(b)))
                  IN /\ timed <=> (event.start_time > 0 /\ event.end_time > 0)
                     /\ untimed <=> ~timed
        /\ \A day_key \in DOMAIN events_by_day : events_by_day[day_key] # <<>>
        /\ \A day_key \in DOMAIN no_time_events_by_day : no_time_events_by_day[day_key] # <<>>
        /\ raw_events = <<>> => (DOMAIN events_by_day = {} /\ DOMAIN no_time_events_by_day = {})

\* C17 witness: a result with a timed event and with an event that has a start
\* but no end, which went to the events without a time
C17_Witness ==
    /\ ep_pc = "done"
    /\ DOMAIN events_by_day # {}
    /\ \E day_key \in DOMAIN no_time_events_by_day :
          \E p \in 1..Len(no_time_events_by_day[day_key]) :
              /\ no_time_events_by_day[day_key][p].start_time > 0
              /\ no_time_events_by_day[day_key][p].end_time <= 0

\* minutes after midnight of an HHMM time
MinutesOfDay(hhmm) == (hhmm \div 100) * 60 + (hhmm % 100)

\* where the cluster of position p starts in a list in start order: an event
\* joins the cluster before it iff it starts strictly before the latest end
\* of the events already in that cluster
RECURSIVE ClusterStart(_, _)
ClusterStart(list, p) ==
    IF p = 1 THEN 1
    ELSE LET first == ClusterStart(list, p - 1) IN
         IF \A q \in first..(p - 1) :
                MinutesOfDay(list[p].start_time) >= MinutesOfDay(list[q].end_time)
         THEN p
         ELSE first

ClusterSize(list, p) ==
    Cardinality({q \in 1..Len(list) : ClusterStart(list, q) = ClusterStart(list, p)})

\* the number of hundredths of a percentage written with two decimals
Hundredths(text) ==
    LET negative == text # <<>> /\ text[1] = "-"
        digits == SelectSeq(text, LAMBDA c : is_digit(c))
    IN IF negative THEN 0 - digits_value(digits) ELSE digits_value(digits)

\* text is "x.xx%" (or "-x.xx%"), the rounding of num / den percent to two
\* decimals
IsPercent(text, num, den) ==
    /\ Len(text) >= 5
    /\ text[Len(text)] = "%"
    /\ text[Len(text) - 3] = "."
    /\ LET distance == Hundredths(text) * den - num * 100
       IN 2 * distance <= den /\ 2 * distance >= 0 - den

\* C18: in a day's timed events in start order, an event joins the current
\* cluster iff its start is strictly before the maximum end of all events
\* already in the cluster, otherwise it opens a new cluster; in a cluster of N
\* events the member at cluster index k has width 100/N percent and left
\* offset k*100/N percent
C18_ClusterByMaxEnd ==
    ep_pc = "done" =>
        \A day_key \in DOMAIN events_by_day :
            LET list == events_by_day[day_key] IN
            \A p \in 1..Len(list) :
                /\ IsPercent(list[p].width, 100, ClusterSize(list, p))
                /\ IsPercent(list[p].left, (p - ClusterStart(list, p)) * 100,
                             ClusterSize(list, p))

\* C18 witness: a cluster of three events whose last member starts after the
\* event before it has ended, and joined because of an earlier, longer event
C18_Witness ==
    /\ ep_pc = "done"
    /\ \E day_key \in DOMAIN events_by_day :
          LET list == events_by_day[day_key] IN
          \E p \in 3..Len(list) :
              /\ ClusterStart(list, p) = p - 2
              /\ list[p].start_time >= list[p - 1].end_time
              /\ list[p].left = <<"6", "6", ".", "6", "7", "%">>

\* the timed events of all day lists
TimedEvents ==
    UNION { {events_by_day[day_key][p] : p \in 1..Len(events_by_day[day_key])} :
              day_key \in DOMAIN events_by_day }

\* C19: for every timed event, top is (hours*60 + minutes - 480) / 720 * 100
\* and height is max(0, end minutes - start minutes) / 720 * 100 percent: the
\* height is never negative (0 when the end is not after the start), and an
\* event outside the window 08:00-20:00 is neither clipped nor dropped, so
\* top may be negative or above 100
C19_TopAndHeight ==
    ep_pc = "done" =>
        /\ \A e \in TimedEvents :
              LET start_minutes == MinutesOfDay(e.start_time)
                  end_minutes == MinutesOfDay(e.end_time)
                  length == IF end_minutes > start_minutes
                            THEN end_minutes - start_minutes ELSE 0
              IN /\ IsPercent(e.top_position, (start_minutes - 480) * 100, 720)
                 /\ IsPercent(e.height_position, length * 100, 720)
                 /\ Hundredths(e.height_position) >= 0
                 /\ e.height_position[1] # "-"
        /\ \A k \in 1..Len(raw_events) :
              (/\ raw_events[k].start_time > 0
               /\ raw_events[k].end_time > 0
               /\ \E b \in 0..6 : DayIsSet(raw_events[k].day, b))
                  => raw_events[k].id \in {e.id : e \in TimedEvents}

\* C19 witness: an event before the window with a negative top, one after the
\* window with a top above 100, or one that ends before it starts with height 0
C19_Witness ==
    /\ ep_pc = "done"
    /\ \E e \in TimedEvents : Hundredths(e.top_position) < 0
    /\ \E e \in TimedEvents :
          \/ Hundredths(e.top_position) > 10000
          \/ e.end_time < e.start_time /\ Hundredths(e.height_position) = 0

\* the place of an event in the input list
InputPlace(id) == CHOOSE k \in 1..Len(raw_events) : raw_events[k].id = id

\* C20: after process_events every list of eventsByDay is sorted ascending by
\* start time, events of equal start time keep their order of the input list,
\* and within a cluster the left offset grows in this order
C20_SortedStable ==
    ep_pc = "done" =>
        \A day_key \in DOMAIN events_by_day :
            LET list == events_by_day[day_key] IN
            \A p, q \in 1..Len(list) :
                p < q =>
                    /\ list[p].start_time <= list[q].start_time
                    /\ list[p].start_time = list[q].start_time
                          => InputPlace(list[p].id) < InputPlace(list[q].id)
                    /\ ClusterStart(list, p) = ClusterStart(list, q)
                          => Hundredths(list[p].left) < Hundredths(list[q].left)

\* C20 witness: two events of equal start in one list, and an event that comes
\* later in the list than in the input
C20_Witness ==
    /\ ep_pc = "done"
    /\ \E day_key \in DOMAIN events_by_day :
          LET list == events_by_day[day_key] IN
          /\ \E p \in 1..(Len(list) - 1) : list[p].start_time = list[p + 1].start_time
          /\ \E p, q \in 1..Len(list) :
                p < q /\ InputPlace(list[p].id) > InputPlace(list[q].id)

\* ---------------------------------------------------------------------------
\* The search as a run that is never suspended: generate_combinations calls
\* backtrack synchronously (class_combinations.rs:45-52), so a step that can be
\* taken is taken.
SpecLive == Init /\ [][Next]_vars /\ WF_vars(Next)

\* the indices of group k (0-based) in the flattened array
GroupIndices(k) == { class_indices[k + 1][j] : j \in 1..Len(class_indices[k + 1]) }

\* the shape of the search while backtrack runs: the call of depth i works on
\* group i - 1, the partial assignment has one index per group below the
\* current one, the k-th taken from group k
SearchShape ==
    /\ \A i \in 1..Len(stack) : stack[i].current_group = i - 1
    /\ Len(current_schedule) = Frame.current_group
    /\ \A k \in 1..Len(current_schedule) : current_schedule[k] \in GroupIndices(k - 1)

\* C21: at every entry to backtrack (and at every later point of its loop) the
\* partial assignment has exactly current_group elements, the k-th being an
\* index of group k, so the base case finds the full length; the partial
\* assignment is empty again once the top-level call has returned; and every
\* run of the search reaches its end
C21_SearchBalancedAndTerminates ==
    /\ [](pc = "backtrack" => SearchShape)
    /\ [](pc = "backtrack" /\ Frame.current_group = total_groups
             => Len(current_schedule) = total_groups)
    /\ [](pc \in {"collect", "done"} => current_schedule = <<>>)
    /\ <>(pc = "done")

\* C21 witness: the base case is entered with a full assignment of the largest
\* input after an earlier full assignment was recorded and popped
C21_Witness ==
    /\ pc = "backtrack"
    /\ total_groups = MaxGroups
    /\ Frame.current_group = total_groups
    /\ Len(current_schedule) = total_groups
    /\ Len(results) >= 1

----------------------------------------------------------------------------
(* convert_time called on its own (scrape_classes.rs:502-542), as perform_scrape
   calls it for every row of a section's table *)

\* the texts of the time column: ranges, a range in the portal's span tag, a
\* range with an unparsable start, empty and blank texts, a text without hyphen
TimeStrPool ==
    { Chars("9-10"), SpanOpen \o Chars("9-10") \o SpanClose, Chars("lab"),
      Chars("tba"), <<>>, <<" ">>, <<"T", "B", "A">> }

DaysPool == { <<a, b, c, d, e>> : a \in BOOLEAN, b \in BOOLEAN, c \in BOOLEAN,
                                  d \in BOOLEAN, e \in BOOLEAN }

generator_idle ==
    /\ parameters = NoParameters
    /\ combined_classes = <<>>
    /\ classes = <<>>
    /\ class_indices = <<>>
    /\ flattened_classes = <<>>
    /\ current_schedule = <<>>
    /\ results = <<>>
    /\ stack = <<>>
    /\ final_results = <<>>

unit_rest == <<pc, parameters, combined_classes, generator_vars, event_vars>>

InitConvert ==
    /\ pc = "idle"
    /\ generator_idle
    /\ SetupIdle
    /\ EventsIdle
    /\ convert_time_call \in [time_str : TimeStrPool, days : DaysPool]
    /\ convert_time_ret = <<>>
    /\ save_batch_call = <<>>
    /\ startup_complete = FALSE
    /\ invocations = <<>>
    /\ setup_program_runs = 0
    /\ failed_attempts = <<>>
    /\ failed_in_a_row = 0
    /\ verify_ret = NoResult

\* convert_time returns its array (line 541)
ConvertTimeReturn ==
    /\ convert_time_call # <<>>
    /\ convert_time_ret = <<>>
    /\ convert_time_panics(convert_time_call.time_str, convert_time_call.days) = FALSE
    /\ convert_time_ret' = Ok(convert_time(convert_time_call.time_str, convert_time_call.days))
    /\ UNCHANGED <<convert_time_call, save_batch_call, startup_vars, credential_vars,
                   setup_vars, unit_rest>>

\* `.find('-').unwrap()` of line 530 panics
ConvertTimePanic ==
    /\ convert_time_call # <<>>
    /\ convert_time_ret = <<>>
    /\ convert_time_panics(convert_time_call.time_str, convert_time_call.days) = TRUE
    /\ convert_time_ret' = [status |-> "panic", value |-> <<>>]
    /\ UNCHANGED <<convert_time_call, save_batch_call, startup_vars, credential_vars,
                   setup_vars, unit_rest>>

NextConvert == ConvertTimeReturn \/ ConvertTimePanic

SpecConvert == InitConvert /\ [][NextConvert]_vars

\* a time range is well formed when it has a hyphen and both sides parse
RangeStart(time_str) ==
    LET cleaned == cleaned_time(time_str) IN
    parse_time_component(trim(SubSeq(cleaned, 1, find(cleaned, "-"))))

RangeEnd(time_str) ==
    LET cleaned == cleaned_time(time_str) IN
    parse_time_component(trim(SubSeq(cleaned, find(cleaned, "-") + 2, Len(cleaned))))

WellFormedRange(time_str) ==
    /\ trim(time_str) # <<>>
    /\ find(cleaned_time(time_str), "-") # -1
    /\ RangeStart(time_str) # -1
    /\ RangeEnd(time_str) # -1

\* C22: for a non-empty, well-formed time range, convert_time returns for every
\* weekday index 0..4 (Monday to Friday) the slot ((start, end), true) with the
\* parsed times when days[i] is true and ((-1, -1), false) otherwise
C22_AllFiveWeekdays ==
    (/\ convert_time_ret # <<>>
     /\ WellFormedRange(convert_time_call.time_str))
    => /\ convert_time_ret.status = "Ok"
       /\ \A i \in 0..4 :
             convert_time_ret.value[i + 1] =
                 IF convert_time_call.days[i + 1]
                 THEN <<<<RangeStart(convert_time_call.time_str),
                          RangeEnd(convert_time_call.time_str)>>, TRUE>>
                 ELSE <<<<-1, -1>>, FALSE>>

----------------------------------------------------------------------------
\* the request indices setup_scrape sends to the scraper
ScrapedIndices == { scrape_indices[k] : k \in 1..Len(scrape_indices) }

\* C23: once the cache was consulted, a requested course whose lookup returned
\* at least one section is not part of the scrape request, and its group in
\* combined_classes is the list the lookup returned; the driver is started
\* only when some lookup returned nothing; and the lookup never ends
\* setup_scrape with an error: a course that was not answered goes to the scraper
C23_CachedCoursesAreNotScraped ==
    (pc \notin {"setup", "idle"} /\ parameters.classes # <<>>) =>
        /\ \A index \in 0..(Len(parameters.classes) - 1) :
              /\ (index \in DOMAIN cached_results) <=> (index \notin ScrapedIndices)
              /\ index \in DOMAIN cached_results =>
                    /\ cached_results[index] # <<>>
                    /\ pc = "scrape" =>
                          cached_results[index] =
                              get_by_name(classname(parameters.classes[index + 1]),
                                          classes_table)
                    /\ combined_classes # <<>> =>
                          combined_classes[index + 1] = cached_results[index]
        /\ Len(classes_to_scrape_params) = Len(scrape_indices)
        /\ \A k \in 1..Len(scrape_indices) :
              classes_to_scrape_params[k] = parameters.classes[scrape_indices[k] + 1]
        /\ driver_started => scrape_indices # <<>>
        /\ pc = "scrape" => ret = NoResult

\* C23 witness: the driver ran for one course while another course came from
\* the cache, and a course with rows in the cache was scraped all the same
C23_Witness ==
    /\ pc = "filter"
    /\ driver_started
    /\ \E index \in DOMAIN cached_results :
          combined_classes[index + 1] = cached_results[index]
    /\ \E k \in 1..Len(scrape_indices) :
          /\ combined_classes[scrape_indices[k] + 1] # <<>>
          /\ \E index \in DOMAIN cached_results :
                classname(parameters.classes[index + 1]) =
                    classname(classes_to_scrape_params[k])

----------------------------------------------------------------------------
(* ScheduleRepository::save_batch called on its own (database_functions.rs:416-441) *)

MaxSchedules == 3

\* combinations as generate_combinations returns them
SchedulePool == { <<SecA1>>, <<SecB1>>, <<SecA1, SecB1>> }

\* what the table schedules holds before the call: nothing, the row of an
\* earlier generation, or a row that the call is going to write again
TablePool ==
    { {}, EarlierSchedules,
      {[id |-> json_schedule(<<SecA1>>), data |-> json_schedule(<<SecA1>>)]} }

\* the ids are the serialized combinations, as setup_scrape builds them
\* (scrape_classes.rs:99-102); the same combination twice gives two equal ids
InitBatch ==
    /\ pc = "idle"
    /\ generator_idle
    /\ EventsIdle
    /\ classes_table = <<>>
    /\ portal = <<>>
    /\ cached_results = <<>>
    /\ classes_to_scrape_params = <<>>
    /\ scrape_indices = <<>>
    /\ driver_started = FALSE
    /\ ret = NoResult
    /\ schedules_table \in TablePool
    /\ \E schedules \in AllSeqs(SchedulePool, MaxSchedules) :
          save_batch_call =
              [ids |-> [k \in 1..Len(schedules) |-> json_schedule(schedules[k])],
               schedules |-> schedules,
               table |-> schedules_table]
    /\ convert_time_call = <<>>
    /\ convert_time_ret = <<>>
    /\ startup_complete = FALSE
    /\ invocations = <<>>
    /\ setup_program_runs = 0
    /\ failed_attempts = <<>>
    /\ failed_in_a_row = 0
    /\ verify_ret = NoResult

\* one call of save_batch; any of its steps may fail
SaveBatch ==
    /\ save_batch_call # <<>>
    /\ ret = NoResult
    /\ \E failing \in 0..(Len(save_batch_call.ids) + 2) :
          LET saved == transaction(save_batch_call.ids, save_batch_call.schedules,
                                   schedules_table, failing)
          IN /\ schedules_table' = saved.table
             /\ ret' = IF saved.ok THEN Ok(<<>>) ELSE Err
    /\ UNCHANGED <<classes_table, portal, cached_results, classes_to_scrape_params,
                   scrape_indices, driver_started>>
    /\ UNCHANGED <<unit_rest, unit_vars>>

NextBatch == SaveBatch

SpecBatch == InitBatch /\ [][NextBatch]_vars

\* the (id, schedule) pairs of a call, as rows
GivenRows ==
    { [id |-> save_batch_call.ids[k], data |-> json_schedule(save_batch_call.schedules[k])] :
        k \in 1..Len(save_batch_call.ids) }

\* C24: save_batch is all-or-nothing: after Ok the table schedules holds
\* exactly one row per given (id, schedule) pair and nothing else; after an
\* error (a failing step, or an INSERT rejected because two ids are equal) the
\* table holds exactly the rows it held before the call
C24_SaveBatchAllOrNothing ==
    (save_batch_call # <<>> /\ ret # NoResult) =>
        /\ ret.status = "Ok" =>
              /\ schedules_table = GivenRows
              /\ Cardinality(schedules_table) = Len(save_batch_call.ids)
        /\ ret.status = "Err" => schedules_table = save_batch_call.table

\* C24 witness: the second of two equal ids was rejected after the DELETE and
\* the first INSERT, and the table still holds the row of the earlier generation
C24_Witness ==
    /\ save_batch_call # <<>>
    /\ ret = Err
    /\ \E i, j \in 1..Len(save_batch_call.ids) :
          i # j /\ save_batch_call.ids[i] = save_batch_call.ids[j]
    /\ schedules_table = EarlierSchedules

----------------------------------------------------------------------------
(* startup_app (main.rs:47-58): concurrent invocations on one AppState *)

MaxInvocations == 3

\* the awaits and fallible calls of setup_program (services.rs:130-164), in order
setup_program_steps ==
    <<"load_connect_info", "fetch_latest_chrome_version", "update_version",
      "sync_chrome_resources", "store_connect_info">>

\* AppState is built with startup_complete = false (main.rs:373); the frontend
\* has invoked startup_app one or more times and no invocation has run yet
InitStartup ==
    /\ pc = "idle"
    /\ generator_idle
    /\ SetupIdle
    /\ EventsIdle
    /\ convert_time_call = <<>>
    /\ convert_time_ret = <<>>
    /\ save_batch_call = <<>>
    /\ startup_complete = FALSE
    /\ \E n \in 1..MaxInvocations :
          invocations = [i \in 1..n |-> [at |-> "called", step |-> 0, ret |-> NoResult]]
    /\ setup_program_runs = 0
    /\ failed_attempts = <<>>
    /\ failed_in_a_row = 0
    /\ verify_ret = NoResult

startup_rest == <<convert_vars, save_batch_call, credential_vars, setup_vars, unit_rest>>

\* a compare_exchange that reads the flag and never writes it
CompareExchangeLoadOnly(i) ==
    /\ invocations[i].at = "called"
    /\ IF startup_complete = FALSE
       THEN invocations' = [invocations EXCEPT ![i].at = "won"]
       ELSE invocations' = [invocations EXCEPT ![i].at = "returned", ![i].ret = Ok(<<>>)]
    /\ UNCHANGED <<startup_complete, setup_program_runs, startup_rest>>

\* line 49: compare_exchange(false, true, SeqCst, SeqCst), one atomic step; the
\* invocation that finds true returns Ok(()) (lines 50-51)
CompareExchange(i) ==
    /\ invocations[i].at = "called"
    /\ IF startup_complete = FALSE
       THEN /\ startup_complete' = TRUE
            /\ invocations' = [invocations EXCEPT ![i].at = "won"]
       ELSE /\ startup_complete' = startup_complete
            /\ invocations' = [invocations EXCEPT ![i].at = "returned", ![i].ret = Ok(<<>>)]
    /\ UNCHANGED <<setup_program_runs, startup_rest>>

\* line 56: the winner calls setup_program
StartSetup(i) ==
    /\ invocations[i].at = "won"
    /\ invocations' = [invocations EXCEPT ![i].at = "setup", ![i].step = 1]
    /\ setup_program_runs' = setup_program_runs + 1
    /\ UNCHANGED <<startup_complete, startup_rest>>

\* services.rs:138-160: one step of setup_program succeeds; after the last one
\* setup_program returns Ok(()) and so does startup_app
SetupProceeds(i) ==
    /\ invocations[i].at = "setup"
    /\ IF invocations[i].step < Len(setup_program_steps)
       THEN invocations' = [invocations EXCEPT ![i].step = @ + 1]
       ELSE invocations' = [invocations EXCEPT ![i].at = "returned", ![i].ret = Ok(<<>>)]
    /\ UNCHANGED <<startup_complete, setup_program_runs, startup_rest>>

\* a `?` of setup_program returns its error, which startup_app maps to a
\* message (main.rs:57); locking connect_info (the last step) cannot fail
SetupFails(i) ==
    /\ invocations[i].at = "setup"
    /\ invocations[i].step < Len(setup_program_steps)
    /\ invocations' = [invocations EXCEPT ![i].at = "returned", ![i].ret = Err]
    /\ UNCHANGED <<startup_complete, setup_program_runs, startup_rest>>

NextStartup ==
    \/ \E i \in 1..Len(invocations) : CompareExchange(i)
    \/ \E i \in 1..Len(invocations) : StartSetup(i)
    \/ \E i \in 1..Len(invocations) : SetupProceeds(i)
    \/ \E i \in 1..Len(invocations) : SetupFails(i)

SpecStartup == InitStartup /\ [][NextStartup]_vars

\* the invocations that won the compare-exchange
Winners == { i \in 1..Len(invocations) :
                invocations[i].at \in {"won", "setup"} \/ invocations[i].step > 0 }

\* C25: under every interleaving of the invocations of startup_app,
\* setup_program is started at most once; at most one invocation wins the
\* compare-exchange, once any invocation has passed it exactly one has won, and
\* every invocation that lost it has returned Ok without running setup_program
C25_SetupStartedAtMostOnce ==
    /\ setup_program_runs <= 1
    /\ Cardinality(Winners) <= 1
    /\ setup_program_runs = Cardinality({ i \in Winners : invocations[i].step > 0 })
    /\ (\E i \in 1..Len(invocations) : invocations[i].at # "called")
          => /\ Cardinality(Winners) = 1
             /\ startup_complete = TRUE
    /\ \A i \in 1..Len(invocations) :
          (invocations[i].at # "called" /\ i \notin Winners)
              => /\ invocations[i].at = "returned"
                 /\ invocations[i].ret = Ok(<<>>)
                 /\ invocations[i].step = 0

\* C25 witness: of three invocations one is inside setup_program while another
\* has already returned Ok and the third has not yet reached the compare-exchange
C25_Witness ==
    /\ Len(invocations) = MaxInvocations
    /\ \E i, j, k \in 1..Len(invocations) :
          /\ invocations[i].at = "setup"
          /\ invocations[j].at = "returned" /\ invocations[j].step = 0
          /\ invocations[k].at = "called"

----------------------------------------------------------------------------
(* verify_master_password and its rate limit (credentials.rs:43-97).  The
   Instant of the failure record is kept as the seconds elapsed since it:
   Instant::now() is elapsed 0, and time passing adds to it.  Attempts follow
   each other: the claim at hand is about one caller. *)

MaxFailures == 3

MaxWait == 4

\* Duration::from_secs(600), line 46
RESET_AFTER_SECS == 600

\* the ages of the failure record at which the user comes back: within a few
\* seconds, or around ten minutes later
ElapsedPool == (1..MaxWait) \cup {RESET_AFTER_SECS - 1, RESET_AFTER_SECS, RESET_AFTER_SECS + 1}

NoAttempts == <<>>

\* the result of an attempt, with the failure record it found and the one it left
NotVerified ==
    [status |-> "none", compared |-> FALSE, found |-> NoAttempts, left |-> NoAttempts,
     failed_before |-> 0]

\* a rate limit of one second whatever the count
check_rate_limit_flat(attempts) ==
    IF attempts = NoAttempts THEN [ok |-> TRUE, attempts |-> attempts]
    ELSE LET count == IF attempts.elapsed > RESET_AFTER_SECS THEN 0 ELSE attempts.count
             delay_seconds == 1
         IN [ok |-> ~(attempts.elapsed < delay_seconds),
             attempts |-> [attempts EXCEPT !.count = count]]

\* check_rate_limit, lines 43-58: a record older than 600 s has its count set to
\* 0 (line 46); the attempt is refused while the record is younger than
\* 2^count seconds (lines 47-49).  2_u64.pow(count) does not overflow for the
\* counts below 64 that the bounded runs reach
check_rate_limit(attempts) ==
    IF attempts = NoAttempts THEN [ok |-> TRUE, attempts |-> attempts]
    ELSE LET count == IF attempts.elapsed > RESET_AFTER_SECS THEN 0 ELSE attempts.count
             delay_seconds == 2 ^ count
         IN [ok |-> ~(attempts.elapsed < delay_seconds),
             attempts |-> [attempts EXCEPT !.count = count]]

\* record_failed_attempt, lines 61-67: or_insert((0, now)), count += 1, instant = now
record_failed_attempt(attempts) ==
    [count |-> (IF attempts = NoAttempts THEN 0 ELSE attempts.count) + 1, elapsed |-> 0]

\* clear_failed_attempts, lines 70-74
clear_failed_attempts(attempts) == NoAttempts

InitVerify ==
    /\ pc = "idle"
    /\ generator_idle
    /\ SetupIdle
    /\ EventsIdle
    /\ convert_time_call = <<>>
    /\ convert_time_ret = <<>>
    /\ save_batch_call = <<>>
    /\ startup_complete = FALSE
    /\ invocations = <<>>
    /\ setup_program_runs = 0
    /\ failed_attempts = NoAttempts
    /\ failed_in_a_row = 0
    /\ verify_ret = NotVerified

verify_rest == <<convert_vars, save_batch_call, startup_vars, setup_vars, unit_rest>>

\* time passes until the failure record is `elapsed` seconds old
Wait ==
    /\ failed_attempts # NoAttempts
    /\ \E elapsed \in ElapsedPool :
          /\ elapsed > failed_attempts.elapsed
          /\ failed_attempts' = [failed_attempts EXCEPT !.elapsed = elapsed]
    /\ UNCHANGED <<failed_in_a_row, verify_ret, verify_rest>>

\* line 80: check_rate_limit()? refuses the attempt
VerifyRateLimited ==
    /\ check_rate_limit(failed_attempts).ok = FALSE
    /\ failed_attempts' = check_rate_limit(failed_attempts).attempts
    /\ verify_ret' = [status |-> "rate_limited", compared |-> FALSE,
                      found |-> failed_attempts, left |-> failed_attempts',
                      failed_before |-> failed_in_a_row]
    /\ UNCHANGED <<failed_in_a_row, verify_rest>>

\* lines 81-87: the keychain has no usable hash of the master password
VerifyNotSetUp ==
    /\ check_rate_limit(failed_attempts).ok = TRUE
    /\ failed_attempts' = check_rate_limit(failed_attempts).attempts
    /\ verify_ret' = [status |-> "not_set_up", compared |-> FALSE,
                      found |-> failed_attempts, left |-> failed_attempts',
                      failed_before |-> failed_in_a_row]
    /\ UNCHANGED <<failed_in_a_row, verify_rest>>

\* lines 88-92: the password matches the stored hash
VerifyOk ==
    /\ check_rate_limit(failed_attempts).ok = TRUE
    /\ failed_attempts' = clear_failed_attempts(check_rate_limit(failed_attempts).attempts)
    /\ failed_in_a_row' = 0
    /\ verify_ret' = [status |-> "Ok", compared |-> TRUE,
                      found |-> failed_attempts, left |-> failed_attempts',
                      failed_before |-> failed_in_a_row]
    /\ UNCHANGED verify_rest

\* lines 93-96: the password does not match
VerifyInvalid ==
    /\ check_rate_limit(failed_attempts).ok = TRUE
    /\ failed_in_a_row < MaxFailures
    /\ failed_attempts' = record_failed_attempt(check_rate_limit(failed_attempts).attempts)
    /\ failed_in_a_row' = failed_in_a_row + 1
    /\ verify_ret' = [status |-> "invalid", compared |-> TRUE,
                      found |-> failed_attempts, left |-> failed_attempts',
                      failed_before |-> failed_in_a_row]
    /\ UNCHANGED verify_rest

NextVerify == Wait \/ VerifyRateLimited \/ VerifyNotSetUp \/ VerifyOk \/ VerifyInvalid

SpecVerify == InitVerify /\ [][NextVerify]_vars

\* C26 as stated: an attempt made after n consecutive failed verifications
\* (1 <= n <= 63) and less than 2^n seconds after the most recent of them is
\* refused with the rate-limit error, before the password is compared and
\* without a change of the failure counter; a successful verification removes
\* the failure record
C26_RefusedWithinTwoToTheN ==
    verify_ret.status # "none" =>
        /\ (/\ verify_ret.failed_before \in 1..63
            /\ verify_ret.found.elapsed < 2 ^ verify_ret.failed_before)
              => /\ verify_ret.status = "rate_limited"
                 /\ verify_ret.compared = FALSE
                 /\ verify_ret.left # NoAttempts
                 /\ verify_ret.left.count = verify_ret.found.count
        /\ verify_ret.status = "Ok" => verify_ret.left = NoAttempts

\* C26, amended: an attempt that finds a failure record with count n
\* (1 <= n <= 63) that is at most 600 seconds and less than 2^n seconds old is
\* refused with the rate-limit error, before the password is compared and
\* without a change of the record; an attempt that finds a record older than
\* 600 seconds is never refused and starts the count again from 0; a successful
\* verification removes the record, so the attempt after it is not refused
C26_RefusedWithinTwoToTheCount ==
    verify_ret.status # "none" =>
        /\ (/\ verify_ret.found # NoAttempts
            /\ verify_ret.found.count \in 1..63
            /\ verify_ret.found.elapsed <= RESET_AFTER_SECS
            /\ verify_ret.found.elapsed < 2 ^ verify_ret.found.count)
              => /\ verify_ret.status = "rate_limited"
                 /\ verify_ret.compared = FALSE
                 /\ verify_ret.left = verify_ret.found
        /\ (verify_ret.found # NoAttempts /\ verify_ret.found.elapsed > RESET_AFTER_SECS)
              => /\ verify_ret.status # "rate_limited"
                 /\ verify_ret.left # NoAttempts =>
                       verify_ret.left.count = IF verify_ret.status = "invalid" THEN 1 ELSE 0
        /\ verify_ret.status = "Ok" =>
              /\ verify_ret.left = NoAttempts
              /\ check_rate_limit(verify_ret.left).ok = TRUE

\* C26 witness: after two failures the record holds count 2, and an attempt one
\* second after the second failure was refused
C26_Witness ==
    /\ verify_ret.status = "rate_limited"
    /\ verify_ret.failed_before = 2
    /\ verify_ret.found = [count |-> 2, elapsed |-> 1]
    /\ verify_ret.left = verify_ret.found

----------------------------------------------------------------------------
\* two events overlap strictly, each with its start before its end
StrictlyOverlap(a, b) ==
    /\ a.start_time < a.end_time
    /\ b.start_time < b.end_time
    /\ a.start_time < b.end_time
    /\ b.start_time < a.end_time

\* C27: two timed events of one day list whose intervals strictly overlap
\* (a.start < b.end and b.start < a.end, each with start < end) are laid out
\* side by side: they have the same width, as members of one cluster, and
\* different left offsets, so they are never put in the same column
C27_OverlappingEventsSideBySide ==
    ep_pc = "done" =>
        \A day_key \in DOMAIN events_by_day :
            LET list == events_by_day[day_key] IN
            \A p, q \in 1..Len(list) :
                (p < q /\ StrictlyOverlap(list[p], list[q])) =>
                    /\ list[p].width = list[q].width
                    /\ list[p].left # list[q].left

\* C27 witness: a day with three events, the long one overlapping both others,
\* which do not overlap each other
C27_Witness ==
    /\ ep_pc = "done"
    /\ \E day_key \in DOMAIN events_by_day :
          LET list == events_by_day[day_key] IN
          /\ Len(list) = 3
          /\ StrictlyOverlap(list[1], list[2])
          /\ StrictlyOverlap(list[1], list[3])
          /\ ~StrictlyOverlap(list[2], list[3])
          /\ list[3].width = <<"3", "3", ".", "3", "3", "%">>

----------------------------------------------------------------------------
\* the position of each chosen section within its group (0-based)
Positions(schedule) == [k \in 1..Len(schedule) |-> schedule[k] - Offset(k)]

\* s comes before t in lexicographic order
LexLess(s, t) ==
    \E k \in 1..Min(Len(s), Len(t)) :
        /\ s[k] < t[k]
        /\ \A j \in 1..(k - 1) : s[j] = t[j]

\* C28: the combinations are emitted in depth-first order: at every moment the
\* recorded results are strictly ascending in the lexicographic order of the
\* tuples (position within group 0, position within group 1, ...); so the first
\* returned combination is the least of all conflict-free tuples, and the
\* returned list of sections keeps this order
C28_ResultsInDepthFirstOrder ==
    /\ \A r \in 1..(Len(results) - 1) :
          LexLess(Positions(results[r]), Positions(results[r + 1]))
    /\ (pc = "done" /\ total_groups > 0) =>
          /\ \A t \in ValidTuples :
                /\ results # <<>>
                /\ t = results[1] \/ LexLess(Positions(results[1]), Positions(t))
          /\ Len(final_results) = Len(results)
          /\ \A r \in 1..Len(results) :
                final_results[r] = [k \in 1..total_groups |-> SectionAt(results[r][k])]

\* C28 witness: the groups of the largest input gave several combinations, and
\* the first one does not use the first section of every group because of a
\* conflict
C28_Witness ==
    /\ pc = "done"
    /\ total_groups = MaxGroups
    /\ Len(results) >= 2
    /\ \E k \in 1..total_groups : Positions(results[1])[k] > 0

----------------------------------------------------------------------------
(* generate_combinations as a function of its argument, to compare calls *)

\* backtrack, lines 84-125, from position pos of the loop over the current
\* group: the list results after the call
RECURSIVE backtrack(_, _, _, _, _, _)
backtrack(all_classes, indices, schedule, current_group, pos, found) ==
    IF current_group = Len(indices)
    THEN IF Len(schedule) = Len(indices) THEN Append(found, schedule) ELSE found
    ELSE IF pos = Len(indices[current_group + 1]) THEN found
    ELSE LET class_idx == indices[current_group + 1][pos + 1]
             after == IF is_compatible(all_classes, class_idx, schedule)
                      THEN backtrack(all_classes, indices, Append(schedule, class_idx),
                                     current_group + 1, 0, found)
                      ELSE found
         IN backtrack(all_classes, indices, schedule, current_group, pos + 1, after)

\* generate_combinations, lines 23-65
generate_combinations(groups) ==
    LET all_classes == build_flattened_classes(groups)
        found == backtrack(all_classes, build_class_indices(groups), <<>>, 0, 0, <<>>)
    IN [r \in 1..Len(found) |->
           [k \in 1..Len(found[r]) |-> all_classes[found[r][k] + 1]]]

\* the permutations of the group positions
GroupOrders(n) ==
    { p \in [1..n -> 1..n] : \A i, j \in 1..n : p[i] = p[j] => i = j }

\* the list with position g taken from position p[g]
PermutedBy(list, p) == [g \in 1..Len(list) |-> list[p[g]]]

\* C29: the set of combinations does not depend on the order of the groups:
\* for every permutation p of the groups, generate_combinations of the
\* permuted groups returns, as a set, the combinations returned for the groups
\* as given, each with its positions permuted by p
C29_GroupOrderIrrelevant ==
    pc = "done" =>
        \A p \in GroupOrders(Len(classes)) :
            Members(generate_combinations(PermutedBy(classes, p)))
                = { PermutedBy(final_results[r], p) : r \in 1..Len(final_results) }

\* C29 witness: three different groups gave several combinations, and a
\* permutation of the groups changes the order in which they are returned
C29_Witness ==
    /\ pc = "done"
    /\ Len(classes) = MaxGroups
    /\ \A g, h \in 1..Len(classes) : g # h => classes[g] # classes[h]
    /\ Len(final_results) >= 2
    /\ \E p \in GroupOrders(Len(classes)) :
          generate_combinations(PermutedBy(classes, p))
              # [r \in 1..Len(final_results) |-> PermutedBy(final_results[r], p)]

----------------------------------------------------------------------------
\* C30: generate_combinations called with zero groups returns the list that
\* holds the empty combination and nothing else (not the empty list); called
\* with one group it returns one combination per section of the group, each
\* holding just that section, in the order of the group
C30_ZeroAndOneGroup ==
    pc = "done" =>
        /\ Len(classes) = 0 => final_results = << <<>> >>
        /\ Len(classes) = 1 =>
              final_results = [k \in 1..Len(classes[1]) |-> <<classes[1][k]>>]

\* C30 witness: a single group of two sections was searched
C30_Witness ==
    /\ pc = "done"
    /\ Len(classes) = 1
    /\ Len(classes[1]) = MaxGroupSize
    /\ Len(final_results) = MaxGroupSize

====
